---------------------------- MODULE Spec2Model ----------------------------
(*************************************************************************)
(* The EOF (EVM Object Format) container validator of evmone:            *)
(* lib/evmone/eof.hpp (header + implementation).  Containers are byte    *)
(* sequences; validate_eof and the functions it calls are operators      *)
(* computed as the code computes them, and the state machine applies     *)
(* them to inputs drawn from bounded families of containers.             *)
(*************************************************************************)
EXTENDS Integers, Sequences, FiniteSets, TLC

VARIABLES
    container,   \* bytes: the container handed to validate_eof / append_data_section
    rev,         \* evmc_revision handed to validate_eof
    pc,          \* "input" | "validated" | "appended" | "revalidated"
    result,      \* EOFValidationError returned by validate_eof ("none" before the call)
    original,    \* the container as it was before append_data_section
    aux_data,    \* the aux_data handed to append_data_section
    appended,    \* return value of append_data_section ("none" before the call)
    result2,     \* EOFValidationError of validate_eof on the container after the append
    table_op,    \* the opcode looked up in a cost table
    table_version, \* the eof_version handed to get_baseline_cost_table
    cost_defined \* "defined" unless the table entry is instr::undefined ("none" before the lookup)

vars == <<container, rev, pc, result, original, aux_data, appended, result2,
          table_op, table_version, cost_defined>>

-----------------------------------------------------------------------------
(* Constants of eof.hpp *)

MAGIC == <<239, 0>>
TERMINATOR == 0
TYPE_SECTION == 1
CODE_SECTION == 2
DATA_SECTION == 3
CONTAINER_SECTION == 4
MAX_SECTION == CONTAINER_SECTION
CODE_SECTION_NUMBER_LIMIT == 1024
MAX_STACK_HEIGHT == 1024
OUTPUTS_INPUTS_NUMBER_LIMIT == 127
UINT16_MAX == 65535

(* evmc_revision values (evmc.h) *)
EVMC_FRONTIER == 0
EVMC_SHANGHAI == 11
EVMC_CANCUN == 12
EVMC_MAX_REVISION == EVMC_CANCUN

(* Opcodes (instructions_opcodes.hpp) *)
OP_STOP == 0
OP_ADD == 1
OP_ADDRESS == 48
OP_POP == 80
OP_JUMPDEST == 91
OP_RJUMP == 92
OP_RJUMPI == 93
OP_RJUMPV == 94
OP_PUSH0 == 95
OP_PUSH1 == 96
OP_PUSH32 == 127
OP_DUP1 == 128
OP_DUP16 == 143
OP_SWAP1 == 144
OP_SWAP16 == 159
OP_LOG0 == 160
OP_LOG4 == 164
OP_CALLF == 176
OP_RETF == 177
OP_RETURN == 243
OP_REVERT == 253
OP_INVALID == 254
OP_SELFDESTRUCT == 255

-----------------------------------------------------------------------------
(* Fixed-width integer helpers *)

\* static_cast<uint16_t>(x)
ToUint16(x) == x % 65536

\* static_cast<uint16_t>((hi << 8) | lo)
U16(hi, lo) == (hi * 256 + lo) % 65536

\* static_cast<int16_t>((hi << 8) | lo): two's complement
FromTwosComplement16(u) == IF u >= 32768 THEN u - 65536 ELSE u
Int16(hi, lo) == FromTwosComplement16(U16(hi, lo))

\* static_cast<int8_t>(x) for x in -255 .. 255
ToInt8(x) == LET u == (x + 256) % 256 IN IF u >= 128 THEN u - 256 ELSE u

\* The first error of a loop with early return whose iterations lo..hi are
\* independent of each other: errs[i] is the error iteration i returns
\* ("success": none).  Evaluated by halving, left half first.
RECURSIVE FirstError(_, _, _)
FirstError(errs, lo, hi) ==
    IF lo > hi THEN "success"
    ELSE IF lo = hi THEN errs[lo]
    ELSE LET mid == (lo + hi) \div 2
             l == FirstError(errs, lo, mid)
         IN  IF l # "success" THEN l ELSE FirstError(errs, mid + 1, hi)

\* std::accumulate(s.begin() + lo - 1, s.begin() + hi, 0), by halving
RECURSIVE Accumulate(_, _, _)
Accumulate(s, lo, hi) ==
    IF lo > hi THEN 0
    ELSE IF lo = hi THEN s[lo]
    ELSE LET mid == (lo + hi) \div 2
         IN  Accumulate(s, lo, mid) + Accumulate(s, mid + 1, hi)

\* The running offsets of "for size in sizes: emplace_back(offset); offset += size"
\* for the entries lo..hi, the offset before entry lo being start (exact integers).
RECURSIVE RunningOffsets(_, _, _, _)
RunningOffsets(sizes, lo, hi, start) ==
    IF lo > hi THEN <<>>
    ELSE IF lo = hi THEN <<start>>
    ELSE LET mid == (lo + hi) \div 2
         IN  RunningOffsets(sizes, lo, mid, start) \o
             RunningOffsets(sizes, mid + 1, hi, start + Accumulate(sizes, lo, mid))

-----------------------------------------------------------------------------
(* bytes_view: a view [buf, base, len] of len bytes of the buffer buf that   *)
(* start at offset base.  An index past the view but inside buf reads the    *)
(* buffer's byte there (a bytes_view is a raw pointer and a length); an      *)
(* index outside buf is an out-of-bounds read.                               *)

View(bytes) == [buf |-> bytes, base |-> 0, len |-> Len(bytes)]

\* bytes_view{&container[begin], size}
SubView(c, begin, size) == [buf |-> c.buf, base |-> c.base + begin, len |-> size]

\* the bytes of the view (views inside the buffer only)
Bytes(c) == SubSeq(c.buf, c.base + 1, c.base + c.len)

InBuf(c, i) == c.base + i >= 0 /\ c.base + i < Len(c.buf)

\* container[i]
At(c, i) == c.buf[c.base + i + 1]


-----------------------------------------------------------------------------
(* eof_header_size *)

\* EOFSectionHeaders section_headers{}
EmptySectionHeaders == [id \in 0 .. MAX_SECTION |-> <<>>]

eof_header_size(headers) ==
    LET non_code_section_count == Len(headers[TYPE_SECTION]) + Len(headers[DATA_SECTION])
        code_section_count == Len(headers[CODE_SECTION])
        container_section_count == Len(headers[CONTAINER_SECTION])
        header_size == Len(MAGIC) + 1 + non_code_section_count * 3
                         + 1 + 2 + code_section_count * 2 + 1
    IN  IF container_section_count # 0
        THEN header_size + 1 + 2 + container_section_count * 2
        ELSE header_size

-----------------------------------------------------------------------------
(* validate_eof_headers: the state machine over the section headers.  it is  *)
(* the iterator as an offset into the view; end is container.end().  A step  *)
(* yields [err, it, state, section_id, section_num, headers]; err is         *)
(* "success" while the loop goes on.                                         *)

HdrErr(e) == [err |-> e]

\* SizeLoopError with the limit compared one section late
SizeLoopErrorLate(c, it, section_id, headers, i) ==
    LET p == it + 2 * i
    IN  IF p = c.len THEN "incomplete_section_size"
        ELSE IF ~InBuf(c, p) THEN "out_of_bounds_read"
        ELSE IF p + 1 = c.len THEN "incomplete_section_size"
        ELSE IF ~InBuf(c, p + 1) THEN "out_of_bounds_read"
        ELSE IF U16(At(c, p), At(c, p + 1)) = 0 THEN "zero_section_size"
        ELSE IF Len(headers[CODE_SECTION]) + (IF section_id = CODE_SECTION THEN i ELSE 0)
                  > CODE_SECTION_NUMBER_LIMIT
             THEN "too_many_code_sections"
        ELSE "success"

\* Iteration i (from 0) of the loop over the section_num sizes of a Code or
\* Container header, the iterator being at it when the loop starts.
SizeLoopError(c, it, section_id, headers, i) ==
    LET p == it + 2 * i
    IN  IF p = c.len THEN "incomplete_section_size"
        ELSE IF ~InBuf(c, p) THEN "out_of_bounds_read"
        ELSE IF p + 1 = c.len THEN "incomplete_section_size"
        ELSE IF ~InBuf(c, p + 1) THEN "out_of_bounds_read"
        ELSE IF U16(At(c, p), At(c, p + 1)) = 0 THEN "zero_section_size"
        ELSE IF Len(headers[CODE_SECTION]) + (IF section_id = CODE_SECTION THEN i ELSE 0)
                  = CODE_SECTION_NUMBER_LIMIT
             THEN "too_many_code_sections"
        ELSE "success"

\* ReadSectionNumber that reports a missing number as a missing size
ReadSectionNumberAsSize(c, it, section_id, headers) ==
    IF it = c.len THEN HdrErr("incomplete_section_size")
    ELSE IF ~InBuf(c, it) THEN HdrErr("out_of_bounds_read")
    ELSE IF it + 1 = c.len THEN HdrErr("incomplete_section_size")
    ELSE IF ~InBuf(c, it + 1) THEN HdrErr("out_of_bounds_read")
    ELSE IF U16(At(c, it), At(c, it + 1)) = 0 THEN HdrErr("zero_section_size")
    ELSE [err |-> "success", it |-> it + 2, state |-> "section_size",
          section_id |-> section_id, section_num |-> U16(At(c, it), At(c, it + 1)),
          headers |-> headers]

\* Reads the 16-bit section number of a Code or Container header at it.
ReadSectionNumber(c, it, section_id, headers) ==
    IF it = c.len THEN HdrErr("incomplete_section_number")
    ELSE IF ~InBuf(c, it) THEN HdrErr("out_of_bounds_read")
    ELSE IF it + 1 = c.len THEN HdrErr("incomplete_section_number")
    ELSE IF ~InBuf(c, it + 1) THEN HdrErr("out_of_bounds_read")
    ELSE LET section_num == U16(At(c, it), At(c, it + 1))
         IN  IF section_num = 0 THEN HdrErr("zero_section_size")
             ELSE [err |-> "success", it |-> it + 2, state |-> "section_size",
                   section_id |-> section_id, section_num |-> section_num,
                   headers |-> headers]

\* TerminatorError without the check of the Data header
TerminatorErrorNoData(headers) ==
    IF headers[TYPE_SECTION] = <<>> THEN "type_section_missing"
    ELSE IF headers[CODE_SECTION] = <<>> THEN "code_section_missing"
    ELSE "success"

\* case TERMINATOR: the error it returns ("success": none, the state becomes terminated)
TerminatorError(headers) ==
    IF headers[TYPE_SECTION] = <<>> THEN "type_section_missing"
    ELSE IF headers[CODE_SECTION] = <<>> THEN "code_section_missing"
    ELSE IF headers[DATA_SECTION] = <<>> THEN "data_section_missing"
    ELSE "success"

\* case State::section_id
StepSectionId(c, it0, section_num, headers) ==
    LET section_id == At(c, it0)
        it == it0 + 1
        go(state) == [err |-> "success", it |-> it, state |-> state,
                      section_id |-> section_id, section_num |-> section_num,
                      headers |-> headers]
    IN  IF section_id = TERMINATOR THEN
            IF TerminatorError(headers) # "success" THEN HdrErr(TerminatorError(headers))
            ELSE go("terminated")
        ELSE IF section_id = TYPE_SECTION THEN
            IF headers[TYPE_SECTION] # <<>> THEN HdrErr("multiple_type_sections")
            ELSE IF headers[CODE_SECTION] # <<>>
                 THEN HdrErr("code_section_before_type_section")
            ELSE go("section_size")
        ELSE IF section_id = DATA_SECTION THEN
            IF headers[TYPE_SECTION] = <<>>
            THEN HdrErr("data_section_before_types_section")
            ELSE IF headers[CODE_SECTION] = <<>>
                 THEN HdrErr("data_section_before_code_section")
            ELSE IF headers[DATA_SECTION] # <<>> THEN HdrErr("multiple_data_sections")
            ELSE go("section_size")
        ELSE IF section_id = CODE_SECTION THEN
            IF headers[TYPE_SECTION] = <<>>
            THEN HdrErr("code_section_before_type_section")
            ELSE IF headers[DATA_SECTION] # <<>>
                 THEN HdrErr("data_section_before_code_section")
            ELSE IF headers[CODE_SECTION] # <<>>
                 THEN HdrErr("multiple_code_sections_headers")
            ELSE ReadSectionNumber(c, it, section_id, headers)
        ELSE IF section_id = CONTAINER_SECTION THEN
            IF headers[TYPE_SECTION] = <<>>
            THEN HdrErr("container_section_before_type_section")
            ELSE IF headers[CODE_SECTION] = <<>>
                 THEN HdrErr("container_section_before_code_section")
            ELSE IF headers[CONTAINER_SECTION] # <<>>
                 THEN HdrErr("multiple_container_sections_headers")
            ELSE ReadSectionNumber(c, it, section_id, headers)
        ELSE HdrErr("unknown_section_id")

\* case State::section_size
StepSectionSize(c, it, section_id, section_num, headers) ==
    IF section_id = CODE_SECTION \/ section_id = CONTAINER_SECTION THEN
        LET e == FirstError([i \in 0 .. section_num - 1 |->
                                SizeLoopError(c, it, section_id, headers, i)],
                            0, section_num - 1)
            sizes == [k \in 1 .. section_num |->
                         U16(At(c, it + 2 * (k - 1)), At(c, it + 2 * (k - 1) + 1))]
        IN  IF e # "success" THEN HdrErr(e)
            ELSE [err |-> "success", it |-> it + 2 * section_num, state |-> "section_id",
                  section_id |-> section_id, section_num |-> section_num,
                  headers |-> [headers EXCEPT ![section_id] = @ \o sizes]]
    ELSE  \* TYPES_SECTION or DATA_SECTION
        IF it + 1 = c.len THEN HdrErr("incomplete_section_size")
        ELSE IF ~InBuf(c, it + 1) THEN HdrErr("out_of_bounds_read")
        ELSE LET section_size == U16(At(c, it), At(c, it + 1))
             IN  IF section_size = 0 /\ section_id # DATA_SECTION
                 THEN HdrErr("zero_section_size")
                 ELSE [err |-> "success", it |-> it + 2, state |-> "section_id",
                       section_id |-> section_id, section_num |-> section_num,
                       headers |-> [headers EXCEPT ![section_id] = Append(@, section_size)]]

\* HeaderLoop under the condition "it != container_end" alone
RECURSIVE HeaderLoopToEnd(_, _)
HeaderLoopToEnd(c, s) ==
    IF s.err # "success" THEN s
    ELSE IF s.it = c.len THEN s
    ELSE IF s.state = "terminated" THEN HdrErr("impossible")
    ELSE IF ~InBuf(c, s.it) THEN HdrErr("out_of_bounds_read")
    ELSE IF s.state = "section_id"
         THEN HeaderLoopToEnd(c, StepSectionId(c, s.it, s.section_num, s.headers))
    ELSE HeaderLoopToEnd(c, StepSectionSize(c, s.it, s.section_id, s.section_num,
                                            s.headers))

\* while (it != container_end && state != State::terminated) { switch (state) ... }
RECURSIVE HeaderLoop(_, _)
HeaderLoop(c, s) ==
    IF s.err # "success" THEN s
    ELSE IF s.it = c.len \/ s.state = "terminated" THEN s
    ELSE IF ~InBuf(c, s.it) THEN HdrErr("out_of_bounds_read")
    ELSE IF s.state = "section_id"
         THEN HeaderLoop(c, StepSectionId(c, s.it, s.section_num, s.headers))
    ELSE IF s.state = "section_size"
         THEN HeaderLoop(c, StepSectionSize(c, s.it, s.section_id, s.section_num,
                                            s.headers))
    ELSE HdrErr("impossible")   \* case State::terminated

\* HeaderBodiesCheck with the type size checked ahead of the bodies size
HeaderBodiesCheckTypeFirst(c, s) ==
    IF s.err # "success" THEN s
    ELSE
    LET h == s.headers
        section_bodies_size ==
            (IF h[TYPE_SECTION] # <<>> THEN h[TYPE_SECTION][1] ELSE 0)
            + Accumulate(h[CODE_SECTION], 1, Len(h[CODE_SECTION]))
            + (IF h[DATA_SECTION] # <<>> THEN h[DATA_SECTION][1] ELSE 0)
            + Accumulate(h[CONTAINER_SECTION], 1, Len(h[CONTAINER_SECTION]))
        remaining_container_size == c.len - s.it
    IN  IF s.state # "terminated" THEN HdrErr("section_headers_not_terminated")
        ELSE IF h[TYPE_SECTION] # <<>> /\ h[TYPE_SECTION][1] # Len(h[CODE_SECTION]) * 4
             THEN HdrErr("invalid_type_section_size")
        ELSE IF section_bodies_size # remaining_container_size
             THEN HdrErr("invalid_section_bodies_size")
        ELSE [err |-> "success", headers |-> h]

\* The checks that follow the loop; s is the state the loop ended in.
HeaderBodiesCheck(c, s) ==
    IF s.err # "success" THEN s
    ELSE
    LET h == s.headers
        section_bodies_size ==
            (IF h[TYPE_SECTION] # <<>> THEN h[TYPE_SECTION][1] ELSE 0)
            + Accumulate(h[CODE_SECTION], 1, Len(h[CODE_SECTION]))
            + (IF h[DATA_SECTION] # <<>> THEN h[DATA_SECTION][1] ELSE 0)
            + Accumulate(h[CONTAINER_SECTION], 1, Len(h[CONTAINER_SECTION]))
        remaining_container_size == c.len - s.it
    IN  IF s.state # "terminated" THEN HdrErr("section_headers_not_terminated")
        ELSE IF section_bodies_size # remaining_container_size
             THEN HdrErr("invalid_section_bodies_size")
        ELSE IF h[TYPE_SECTION] # <<>> /\ h[TYPE_SECTION][1] # Len(h[CODE_SECTION]) * 4
             THEN HdrErr("invalid_type_section_size")
        ELSE [err |-> "success", headers |-> h]

\* Result: [err |-> error] or [err |-> "success", headers |-> section headers]
validate_eof_headers(c) ==
    HeaderBodiesCheck(c, HeaderLoop(c, [err |-> "success", it |-> Len(MAGIC) + 1,
                                        state |-> "section_id", section_id |-> 0,
                                        section_num |-> 0,
                                        headers |-> EmptySectionHeaders]))
-----------------------------------------------------------------------------
(* The opcode metadata the validator consumes: instr::traits and            *)
(* instr::gas_costs (instructions_traits.hpp) behind                        *)
(* baseline::get_baseline_cost_table.  Opcodes are bytes 0 .. 255.          *)

InRange(op, lo, hi) == lo <= op /\ op <= hi

\* instr::traits[op].since for the opcodes the EOF revisions add
since(op) ==
    IF op \in {OP_RJUMP, OP_RJUMPI, OP_RJUMPV, OP_CALLF, OP_RETF} THEN EVMC_CANCUN
    ELSE IF op = OP_PUSH0 THEN EVMC_SHANGHAI
    ELSE 0

\* instr::traits[op].name != nullptr: the opcode is assigned
IsAssigned(op) ==
    \/ InRange(op, 0, 11)      \* STOP .. SIGNEXTEND
    \/ InRange(op, 16, 29)     \* LT .. SAR
    \/ op = 32                 \* KECCAK256
    \/ InRange(op, 48, 72)     \* ADDRESS .. BASEFEE
    \/ InRange(op, 80, 95)     \* POP .. JUMPDEST, RJUMP, RJUMPI, RJUMPV, PUSH0
    \/ InRange(op, OP_PUSH1, OP_PUSH32)
    \/ InRange(op, OP_DUP1, OP_DUP16)
    \/ InRange(op, OP_SWAP1, OP_SWAP16)
    \/ InRange(op, OP_LOG0, OP_LOG4)
    \/ op \in {OP_CALLF, OP_RETF}
    \/ InRange(op, 240, 245)   \* CREATE, CALL, CALLCODE, RETURN, DELEGATECALL, CREATE2
    \/ op \in {250, OP_REVERT, OP_INVALID, OP_SELFDESTRUCT}   \* 250: STATICCALL

\* instr::gas_costs[rev][op] != instr::undefined
gas_cost_defined(r, op) == IsAssigned(op) /\ since(op) <= r

\* instr::traits[op].immediate_size
immediate_size(op) ==
    IF InRange(op, OP_PUSH1, OP_PUSH32) THEN op - OP_PUSH1 + 1
    ELSE IF op \in {OP_RJUMP, OP_RJUMPI, OP_CALLF} THEN 2
    ELSE IF op = OP_RJUMPV THEN 1
    ELSE 0

\* instr::traits[op].is_terminating
is_terminating(op) ==
    op \in {OP_STOP, OP_RETURN, OP_REVERT, OP_INVALID, OP_SELFDESTRUCT, OP_RETF}

\* <<stack_height_required, stack_height_change>> of instr::traits[op]
StackTraits(op) ==
    IF op \in {OP_STOP, OP_JUMPDEST, OP_RJUMP, OP_CALLF, OP_RETF, OP_INVALID} THEN <<0, 0>>
    ELSE IF InRange(op, 1, 7) \/ op \in {10, 11} THEN <<2, -1>>     \* ADD .. SMOD, EXP, SIGNEXTEND
    ELSE IF op \in {8, 9} THEN <<3, -2>>                            \* ADDMOD, MULMOD
    ELSE IF op \in {21, 25} THEN <<1, 0>>                           \* ISZERO, NOT
    ELSE IF InRange(op, 16, 29) \/ op = 32 THEN <<2, -1>>           \* LT .. SAR, KECCAK256
    ELSE IF op \in {49, 53, 59, 63, 64, 81, 84} THEN <<1, 0>>       \* BALANCE, CALLDATALOAD, EXTCODESIZE, EXTCODEHASH, BLOCKHASH, MLOAD, SLOAD
    ELSE IF op \in {55, 57, 62} THEN <<3, -3>>                      \* CALLDATACOPY, CODECOPY, RETURNDATACOPY
    ELSE IF op = 60 THEN <<4, -4>>                                  \* EXTCODECOPY
    ELSE IF InRange(op, 48, 72) THEN <<0, 1>>                       \* ADDRESS, ORIGIN, ... BASEFEE
    ELSE IF op \in {OP_POP, 86, OP_RJUMPI, OP_RJUMPV} THEN <<1, -1>>  \* 86: JUMP
    ELSE IF op \in {82, 83, 85, 87} THEN <<2, -2>>                  \* MSTORE, MSTORE8, SSTORE, JUMPI
    ELSE IF op \in {88, 89, 90, OP_PUSH0} THEN <<0, 1>>             \* PC, MSIZE, GAS
    ELSE IF InRange(op, OP_PUSH1, OP_PUSH32) THEN <<0, 1>>
    ELSE IF InRange(op, OP_DUP1, OP_DUP16) THEN <<op - OP_DUP1 + 1, 1>>
    ELSE IF InRange(op, OP_SWAP1, OP_SWAP16) THEN <<op - OP_SWAP1 + 2, 0>>
    ELSE IF InRange(op, OP_LOG0, OP_LOG4) THEN <<op - OP_LOG0 + 2, -(op - OP_LOG0 + 2)>>
    ELSE IF op = 240 THEN <<3, -2>>                                 \* CREATE
    ELSE IF op \in {241, 242} THEN <<7, -6>>                        \* CALL, CALLCODE
    ELSE IF op \in {OP_RETURN, OP_REVERT} THEN <<2, -2>>
    ELSE IF op \in {244, 250} THEN <<6, -5>>                        \* DELEGATECALL, STATICCALL
    ELSE IF op = 245 THEN <<4, -3>>                                 \* CREATE2
    ELSE IF op = OP_SELFDESTRUCT THEN <<1, -1>>
    ELSE <<0, 0>>

stack_height_required(op) == StackTraits(op)[1]
stack_height_change(op) == StackTraits(op)[2]

-----------------------------------------------------------------------------
(* baseline::get_baseline_cost_table (baseline_instruction_table.cpp):      *)
(* cost_table[op] != instr::undefined in the table of (rev, eof_version).   *)

eof_cost_defined(r, op) == gas_cost_defined(r, op)

legacy_cost_defined(r, op) ==
    IF r = EVMC_SHANGHAI /\ op \in {OP_RJUMP, OP_RJUMPI} THEN FALSE
    ELSE eof_cost_defined(r, op)

cost_table_defined(r, eof_version, op) ==
    IF eof_version = 0 THEN legacy_cost_defined(r, op) ELSE eof_cost_defined(r, op)

-----------------------------------------------------------------------------
(* validate_types *)

\* EOF1TypeHeader{container[offset], container[offset + 1],
\*                uint16(container[offset + 2] << 8 | container[offset + 3])}
ReadType(c, offset) ==
    [inputs_num |-> At(c, offset), outputs_num |-> At(c, offset + 1),
     max_stack_height |-> U16(At(c, offset + 2), At(c, offset + 3))]

\* the loop "for (offset = header_size; offset < header_size + size; offset += 4)"
ReadTypes(c, header_size, type_section_size) ==
    [k \in 1 .. (type_section_size + 3) \div 4 |-> ReadType(c, header_size + 4 * (k - 1))]

TypeLimitError(t) ==
    IF t.max_stack_height > MAX_STACK_HEIGHT THEN "max_stack_height_above_limit"
    ELSE IF t.outputs_num > OUTPUTS_INPUTS_NUMBER_LIMIT
              \/ t.inputs_num > OUTPUTS_INPUTS_NUMBER_LIMIT
         THEN "inputs_outputs_num_above_limit"
    ELSE "success"

HeaderTypesOrError(e, types) ==
    IF e # "success" THEN [err |-> e] ELSE [err |-> "success", types |-> types]

\* TypesCheck that checks the limits before the type of the first section
TypesCheckLimitsFirst(types) ==
    IF FirstError([k \in 1 .. Len(types) |-> TypeLimitError(types[k])], 1, Len(types))
         # "success"
    THEN [err |-> FirstError([k \in 1 .. Len(types) |-> TypeLimitError(types[k])],
                             1, Len(types))]
    ELSE IF types[1].inputs_num # 0 \/ types[1].outputs_num # 0
    THEN [err |-> "invalid_first_section_type"]
    ELSE [err |-> "success", types |-> types]

\* the checks on the type headers read
TypesCheck(types) ==
    IF types[1].inputs_num # 0 \/ types[1].outputs_num # 0
    THEN [err |-> "invalid_first_section_type"]
    ELSE HeaderTypesOrError(FirstError([k \in 1 .. Len(types) |-> TypeLimitError(types[k])],
                                       1, Len(types)),
                            types)

\* Result: [err |-> error] or [err |-> "success", types |-> the type headers]
validate_types(c, header_size, type_section_sizes) ==
    IF type_section_sizes = <<>>
    THEN [err |-> "success",
          types |-> <<[inputs_num |-> 0, outputs_num |-> 0, max_stack_height |-> 0]>>]
    ELSE TypesCheck(ReadTypes(c, header_size, type_section_sizes[1]))

-----------------------------------------------------------------------------
(* validate_instructions: code is the view of one code section *)

\* InstructionsLoop that reports cut immediates as no_terminating_instruction
RECURSIVE InstructionsLoopNoTerminating(_, _, _)
InstructionsLoopNoTerminating(r, code, i) ==
    IF i >= code.len THEN "success"
    ELSE IF ~cost_table_defined(r, 1, At(code, i)) THEN "undefined_instruction"
    ELSE IF At(code, i) = OP_RJUMPV /\ ~(i + 1 < code.len) THEN "no_terminating_instruction"
    ELSE IF At(code, i) = OP_RJUMPV /\ At(code, i + 1) < 1 THEN "invalid_rjumpv_count"
    ELSE IF At(code, i) = OP_RJUMPV /\ i + 1 + At(code, i + 1) * 2 >= code.len
         THEN "no_terminating_instruction"
    ELSE IF At(code, i) # OP_RJUMPV /\ i + immediate_size(At(code, i)) >= code.len
         THEN "no_terminating_instruction"
    ELSE InstructionsLoopNoTerminating(r, code,
             IF At(code, i) = OP_RJUMPV THEN i + 2 + At(code, i + 1) * 2
             ELSE i + immediate_size(At(code, i)) + 1)

RECURSIVE InstructionsLoop(_, _, _)
InstructionsLoop(r, code, i) ==
    IF i >= code.len THEN "success"
    ELSE LET op == At(code, i)
         IN  IF ~cost_table_defined(r, 1, op) THEN "undefined_instruction"
             ELSE IF op = OP_RJUMPV /\ ~(i + 1 < code.len) THEN "truncated_instruction"
             ELSE IF op = OP_RJUMPV /\ At(code, i + 1) < 1 THEN "invalid_rjumpv_count"
             ELSE LET j == IF op = OP_RJUMPV
                           THEN i + 1 + At(code, i + 1) * 2
                           ELSE i + immediate_size(op)
                  IN  IF j >= code.len THEN "truncated_instruction"
                      ELSE InstructionsLoop(r, code, j + 1)

validate_instructions(r, code) == InstructionsLoop(r, code, 0)

-----------------------------------------------------------------------------
(* EOF1Header accessors *)

code_begin(header, index) == header.code_offsets[index]
code_end(header, index) == header.code_offsets[index] + header.code_sizes[index]
container_begin(header, index) == header.container_offsets[index]
container_end(header, index) == header.container_offsets[index] + header.container_sizes[index]
container_size(header, index) == header.container_sizes[index]

\* std::fill_n(v.begin() + from, n, value) on a vector held as a function on 0 .. size-1
FillN(v, from, n, value) ==
    [k \in DOMAIN v |-> IF from <= k /\ k < from + n THEN value ELSE v[k]]

-----------------------------------------------------------------------------
(* validate_rjump_destinations: code_idx counts from 1 here, container      *)
(* is the view of the whole container.                                      *)

\* the jump destinations of the RJUMPV at i, entries k .. count-1;
\* <<-1>> when one of them is out of the section
RECURSIVE RjumpvDests(_, _, _, _, _, _)
RjumpvDests(c, op_pos, i, count, code_size, k) ==
    IF k >= count THEN <<>>
    ELSE LET rel_offset == Int16(At(c, op_pos + 1 + 1 + k * 2), At(c, op_pos + 1 + 2 + k * 2))
             post_offset == 1 + 1 + count * 2
             jumpdest == i + post_offset + rel_offset
         IN  IF jumpdest < 0 \/ jumpdest >= code_size THEN <<-1>>
             ELSE LET rest == RjumpvDests(c, op_pos, i, count, code_size, k + 1)
                  IN  IF rest = <<-1>> THEN rest ELSE <<jumpdest>> \o rest

\* the loop over the section: [ok, rjumpdests, immediate_map]
RECURSIVE RjumpCollect(_, _, _, _, _, _)
RjumpCollect(c, begin, code_size, i, rjumpdests, immediate_map) ==
    IF i >= code_size
    THEN [ok |-> TRUE, rjumpdests |-> rjumpdests, immediate_map |-> immediate_map]
    ELSE LET op_pos == begin + i
             op == At(c, op_pos)
         IN  IF op = OP_RJUMP \/ op = OP_RJUMPI THEN
                 LET offset == Int16(At(c, op_pos + 1), At(c, op_pos + 2))
                     jumpdest == i + 3 + offset
                     imm_size == immediate_size(op)
                 IN  IF jumpdest < 0 \/ jumpdest >= code_size THEN [ok |-> FALSE]
                     ELSE RjumpCollect(c, begin, code_size, i + imm_size + 1,
                                       Append(rjumpdests, jumpdest),
                                       FillN(immediate_map, i + 1, imm_size, TRUE))
             ELSE IF op = OP_RJUMPV THEN
                 LET count == At(c, op_pos + 1)
                     dests == RjumpvDests(c, op_pos, i, count, code_size, 0)
                     rjumpv_imm_size == 1 + count * 2
                 IN  IF dests = <<-1>> THEN [ok |-> FALSE]
                     ELSE RjumpCollect(c, begin, code_size, i + rjumpv_imm_size + 1,
                                       rjumpdests \o dests,
                                       FillN(immediate_map, i + 1, rjumpv_imm_size, TRUE))
             ELSE LET imm_size == immediate_size(op)
                  IN  RjumpCollect(c, begin, code_size, i + imm_size + 1, rjumpdests,
                                   FillN(immediate_map, i + 1, imm_size, TRUE))

\* RjumpDestsCheck without the look into immediate_map
RjumpDestsInRange(r) == r.ok

\* "for (const auto rjumpdest : rjumpdests) if (immediate_map[rjumpdest]) return false"
RjumpDestsCheck(r) ==
    r.ok /\ \A n \in 1 .. Len(r.rjumpdests) : ~r.immediate_map[r.rjumpdests[n]]

validate_rjump_destinations(header, code_idx, c) ==
    RjumpDestsCheck(RjumpCollect(c, code_begin(header, code_idx),
                                 header.code_sizes[code_idx], 0, <<>>,
                                 [k \in 0 .. header.code_sizes[code_idx] - 1 |-> FALSE]))

-----------------------------------------------------------------------------
(* validate_max_stack_height: code is the view of one code section,         *)
(* func_index counts from 1 here, funcs_in_outs are the type headers.       *)
(* stack_heights is a function on 0 .. size-1 (-1 unvisited, -2 immediate), *)
(* worklist a sequence whose last element is the top of the stack.          *)

\* the successors the RJUMPV at i adds after its fall-through, entries k .. count-1
RECURSIVE RjumpvSuccessors(_, _, _, _)
RjumpvSuccessors(code, i, count, k) ==
    IF k >= count THEN <<>>
    ELSE LET target_rel_offset == Int16(At(code, i + k * 2 + 2), At(code, i + k * 2 + 3))
         IN  <<i + 2 * count + target_rel_offset + 2>>
             \o RjumpvSuccessors(code, i, count, k + 1)

\* VisitSuccessors that keeps the first height recorded for a successor
RECURSIVE VisitSuccessorsFirstHeight(_, _, _, _, _)
VisitSuccessorsFirstHeight(successors, n, stack_height, stack_heights, worklist) ==
    IF n > Len(successors)
    THEN [err |-> "success", stack_heights |-> stack_heights, worklist |-> worklist]
    ELSE IF stack_heights[successors[n]] = -1
    THEN VisitSuccessorsFirstHeight(successors, n + 1, stack_height,
             [stack_heights EXCEPT ![successors[n]] = stack_height],
             Append(worklist, successors[n]))
    ELSE VisitSuccessorsFirstHeight(successors, n + 1, stack_height, stack_heights,
                                    worklist)

\* "for (auto& s : successors)": [err, stack_heights, worklist]
RECURSIVE VisitSuccessors(_, _, _, _, _)
VisitSuccessors(successors, n, stack_height, stack_heights, worklist) ==
    IF n > Len(successors)
    THEN [err |-> "success", stack_heights |-> stack_heights, worklist |-> worklist]
    ELSE LET s == successors[n]
         IN  IF stack_heights[s] = -1
             THEN VisitSuccessors(successors, n + 1, stack_height,
                                  [stack_heights EXCEPT ![s] = stack_height],
                                  Append(worklist, s))
             ELSE IF stack_heights[s] # stack_height
             THEN [err |-> "stack_height_mismatch"]
             ELSE VisitSuccessors(successors, n + 1, stack_height, stack_heights, worklist)

\* stack_height_required and stack_height_change of a CALLF to function fid
CallfTraits(funcs_in_outs, fid) ==
    IF fid >= Len(funcs_in_outs) THEN [bad_fid |-> TRUE, required |-> 0, change |-> 0]
    ELSE [bad_fid |-> FALSE,
          required |-> ToInt8(funcs_in_outs[fid + 1].inputs_num),
          change |-> ToInt8(funcs_in_outs[fid + 1].outputs_num
                              - ToInt8(funcs_in_outs[fid + 1].inputs_num))]

\* stack_height_required and stack_height_change of the instruction at i
InstrTraits(code, i, opcode, funcs_in_outs) ==
    IF opcode = OP_CALLF
    THEN CallfTraits(funcs_in_outs, U16(At(code, i + 1), At(code, i + 2)))
    ELSE [bad_fid |-> FALSE, required |-> stack_height_required(opcode),
          change |-> stack_height_change(opcode)]

\* FallsThrough with RJUMPI taken for a jump that never falls through
FallsThroughNoJumps(opcode) ==
    opcode # OP_RJUMP /\ opcode # OP_RJUMPI /\ ~is_terminating(opcode) /\ opcode # OP_RJUMPV

\* opcode != OP_RJUMP && !is_terminating && opcode != OP_RJUMPV
FallsThrough(opcode) ==
    opcode # OP_RJUMP /\ ~is_terminating(opcode) /\ opcode # OP_RJUMPV

\* "next" of the instruction at i
NextOffset(code, i, opcode) ==
    IF opcode = OP_RJUMPV THEN i + At(code, i + 1) * 2 + 2
    ELSE i + immediate_size(opcode) + 1

\* the successors vector of the instruction at i
Successors(code, i, opcode) ==
    IF opcode = OP_RJUMPV
    THEN <<NextOffset(code, i, opcode)>> \o RjumpvSuccessors(code, i, At(code, i + 1), 0)
    ELSE (IF FallsThrough(opcode) THEN <<NextOffset(code, i, opcode)>> ELSE <<>>)
         \o (IF opcode = OP_RJUMP \/ opcode = OP_RJUMPI
             THEN <<Int16(At(code, i + 1), At(code, i + 2)) + 3 + i>>
             ELSE <<>>)

\* std::fill_n(beg, immediate size, -2)
MarkImmediates(code, i, opcode, stack_heights) ==
    FillN(stack_heights, i + 1,
          IF opcode = OP_RJUMPV THEN At(code, i + 1) * 2 + 1 ELSE immediate_size(opcode),
          -2)

\* RetfCheck that rejects only a stack with fewer items than the outputs
RetfCheckAtLeast(opcode, stack_height, outputs_num, v) ==
    IF v.err # "success" THEN v
    ELSE IF opcode = OP_RETF /\ stack_height < outputs_num
         THEN [err |-> "non_empty_stack_on_terminating_instruction"]
    ELSE v

\* the RETF check that follows the loop over the successors, v being its result
RetfCheck(opcode, stack_height, outputs_num, v) ==
    IF v.err # "success" THEN v
    ELSE IF opcode = OP_RETF /\ stack_height # outputs_num
         THEN [err |-> "non_empty_stack_on_terminating_instruction"]
    ELSE v

\* StackStepWith without the comparison with stack_height_required
StackStepWithNoUnderflow(code, func_index, funcs_in_outs, i, stack_heights, worklist, opcode, t) ==
    IF t.bad_fid THEN [err |-> "invalid_code_section_index"]
    ELSE IF (FallsThrough(opcode) \/ opcode = OP_RJUMPV)
              /\ NextOffset(code, i, opcode) >= code.len
         THEN [err |-> "no_terminating_instruction"]
    ELSE RetfCheck(opcode, stack_heights[i] + t.change,
                   funcs_in_outs[func_index].outputs_num,
                   VisitSuccessors(Successors(code, i, opcode), 1,
                                   stack_heights[i] + t.change,
                                   MarkImmediates(code, i, opcode, stack_heights),
                                   worklist))

\* One iteration of "while (!worklist.empty())" for the popped offset i,
\* t being the stack traits of its instruction: [err, stack_heights, worklist]
StackStepWith(code, func_index, funcs_in_outs, i, stack_heights, worklist, opcode, t) ==
    IF t.bad_fid THEN [err |-> "invalid_code_section_index"]
    ELSE IF stack_heights[i] < t.required THEN [err |-> "stack_underflow"]
    ELSE IF (FallsThrough(opcode) \/ opcode = OP_RJUMPV)
              /\ NextOffset(code, i, opcode) >= code.len
         THEN [err |-> "no_terminating_instruction"]
    ELSE RetfCheck(opcode, stack_heights[i] + t.change,
                   funcs_in_outs[func_index].outputs_num,
                   VisitSuccessors(Successors(code, i, opcode), 1,
                                   stack_heights[i] + t.change,
                                   MarkImmediates(code, i, opcode, stack_heights),
                                   worklist))

StackStep(code, func_index, funcs_in_outs, i, stack_heights, worklist) ==
    StackStepWith(code, func_index, funcs_in_outs, i, stack_heights, worklist,
                  At(code, i), InstrTraits(code, i, At(code, i), funcs_in_outs))

\* "while (!worklist.empty())" from the state s = [err, stack_heights, worklist]
RECURSIVE StackLoop(_, _, _, _)
StackLoop(code, func_index, funcs_in_outs, s) ==
    IF s.err # "success" THEN s
    ELSE IF s.worklist = <<>> THEN s
    ELSE StackLoop(code, func_index, funcs_in_outs,
                   StackStep(code, func_index, funcs_in_outs,
                             s.worklist[Len(s.worklist)], s.stack_heights,
                             SubSeq(s.worklist, 1, Len(s.worklist) - 1)))

\* std::max_element(stack_heights.begin(), stack_heights.end())
MaxElement(v) == CHOOSE m \in {v[k] : k \in DOMAIN v} : \A k \in DOMAIN v : v[k] <= m

\* StackHeights that enters the section with an empty stack
StackHeightsFromZero(code, func_index, funcs_in_outs) ==
    StackLoop(code, func_index, funcs_in_outs,
              [err |-> "success",
               stack_heights |-> [k \in 0 .. code.len - 1 |-> IF k = 0 THEN 0 ELSE -1],
               worklist |-> <<0>>])

\* The stack heights the analysis ends with: [err, stack_heights, worklist]
StackHeights(code, func_index, funcs_in_outs) ==
    StackLoop(code, func_index, funcs_in_outs,
              [err |-> "success",
               stack_heights |-> [k \in 0 .. code.len - 1 |->
                   IF k = 0 THEN funcs_in_outs[func_index].inputs_num ELSE -1],
               worklist |-> <<0>>])

\* MaxStackResult that does not look for offsets the loop never visited
MaxStackResultVisitedOnly(s) ==
    IF s.err # "success" THEN [err |-> s.err, msh |-> -1]
    ELSE [err |-> "success", msh |-> MaxElement(s.stack_heights)]

\* MaxStackResult that takes the immediates of visited instructions for
\* offsets never visited
MaxStackResultCountsImmediates(s) ==
    IF s.err # "success" THEN [err |-> s.err, msh |-> -1]
    ELSE IF \E k \in DOMAIN s.stack_heights : s.stack_heights[k] < 0
         THEN [err |-> "unreachable_instructions", msh |-> -1]
    ELSE [err |-> "success", msh |-> MaxElement(s.stack_heights)]

\* what follows the loop, s being the state it ended in
MaxStackResult(s) ==
    IF s.err # "success" THEN [err |-> s.err, msh |-> -1]
    ELSE IF \E k \in DOMAIN s.stack_heights : s.stack_heights[k] = -1
         THEN [err |-> "unreachable_instructions", msh |-> -1]
    ELSE [err |-> "success", msh |-> MaxElement(s.stack_heights)]

\* Result: [err, msh] (the pair the function returns)
validate_max_stack_height(code, func_index, funcs_in_outs) ==
    MaxStackResult(StackHeights(code, func_index, funcs_in_outs))

-----------------------------------------------------------------------------
(* validate_eof1 *)

\* code_offsets / container_offsets: emplace_back(static_cast<uint16_t>(offset))
Offsets16(sizes, start) ==
    LET exact == RunningOffsets(sizes, 1, Len(sizes), start)
    IN  [k \in 1 .. Len(sizes) |-> ToUint16(exact[k])]

\* EOF1Header{code_sizes, code_offsets, data_size, container_sizes, container_offsets, types}
MakeHeader(section_headers, header_size, types) ==
    LET code_sizes == section_headers[CODE_SECTION]
        data_size == IF section_headers[DATA_SECTION] = <<>> THEN 0
                     ELSE section_headers[DATA_SECTION][1]
        type_section_size == IF section_headers[TYPE_SECTION] = <<>> THEN 0
                             ELSE section_headers[TYPE_SECTION][1]
        code_start == header_size + type_section_size
        container_sizes == section_headers[CONTAINER_SECTION]
        container_start == code_start + Accumulate(code_sizes, 1, Len(code_sizes)) + data_size
    IN  [code_sizes |-> code_sizes,
         code_offsets |-> Offsets16(code_sizes, code_start),
         data_size |-> data_size,
         container_sizes |-> container_sizes,
         container_offsets |-> Offsets16(container_sizes, container_start),
         types |-> types]

\* e unless it is success, and then the error of what follows
OrElse(e, following) == IF e # "success" THEN e ELSE following

\* MaxStackError that accepts a declared height above the computed one
MaxStackErrorAtMost(msh_validation_result, declared) ==
    IF msh_validation_result.err # "success" THEN msh_validation_result.err
    ELSE IF msh_validation_result.msh > declared THEN "invalid_max_stack_height"
    ELSE "success"

\* the checks on msh_validation_result
MaxStackError(msh_validation_result, declared) ==
    IF msh_validation_result.err # "success" THEN msh_validation_result.err
    ELSE IF msh_validation_result.msh # declared THEN "invalid_max_stack_height"
    ELSE "success"

\* The body of the loop over the code sections, for section code_idx (from 1).
CodeSectionError(r, c, header, code_idx) ==
    OrElse(validate_instructions(r, SubView(c, code_begin(header, code_idx),
                                            header.code_sizes[code_idx])),
      OrElse(IF validate_rjump_destinations(header, code_idx, c) THEN "success"
             ELSE "invalid_rjump_destination",
        MaxStackError(validate_max_stack_height(
                          SubView(c, code_begin(header, code_idx),
                                  header.code_sizes[code_idx]),
                          code_idx, header.types),
                      header.types[code_idx].max_stack_height)))

RECURSIVE validate_eof1(_, _)

\* "for (code_idx ...)": the first error of the code sections
CodeSectionsError(r, c, header) ==
    FirstError([code_idx \in 1 .. Len(header.code_sizes) |->
                   CodeSectionError(r, c, header, code_idx)],
               1, Len(header.code_sizes))

\* "for (container_idx ...)": the first error of the embedded containers
EmbeddedContainersError(r, c, header) ==
    FirstError([container_idx \in 1 .. Len(header.container_sizes) |->
                   validate_eof1(r, SubView(c, container_begin(header, container_idx),
                                            container_size(header, container_idx))).err],
               1, Len(header.container_sizes))

HeaderOrError(e, header) ==
    IF e # "success" THEN [err |-> e] ELSE [err |-> "success", header |-> header]

\* ValidateSections that validates the embedded containers first
ValidateSectionsContainersFirst(r, c, header) ==
    HeaderOrError(OrElse(EmbeddedContainersError(r, c, header),
                         CodeSectionsError(r, c, header)),
                  header)

\* validate_eof1 from the construction of the EOF1Header on
ValidateSections(r, c, header) ==
    HeaderOrError(OrElse(CodeSectionsError(r, c, header),
                         EmbeddedContainersError(r, c, header)),
                  header)

\* validate_eof1 from types_or_error on
ValidateTyped(r, c, section_headers, header_size, types_or_error) ==
    IF types_or_error.err # "success" THEN [err |-> types_or_error.err]
    ELSE ValidateSections(r, c, MakeHeader(section_headers, header_size,
                                           types_or_error.types))

\* validate_eof1 from section_headers_or_error on
ValidateWithHeaders(r, c, section_headers_or_error) ==
    IF section_headers_or_error.err # "success"
    THEN [err |-> section_headers_or_error.err]
    ELSE ValidateTyped(r, c, section_headers_or_error.headers,
                       eof_header_size(section_headers_or_error.headers),
                       validate_types(c, eof_header_size(section_headers_or_error.headers),
                                      section_headers_or_error.headers[TYPE_SECTION]))

\* Result: [err |-> error] or [err |-> "success", header |-> EOF1Header]
validate_eof1(r, c) == ValidateWithHeaders(r, c, validate_eof_headers(c))

\* The index of the byte the header loop reads first in the view c: the
\* iterator starts behind magic and version and is dereferenced unless it
\* equals container.end().
HeaderFirstRead(c) == IF Len(MAGIC) + 1 # c.len THEN {Len(MAGIC) + 1} ELSE {}

\* The embedded containers of c that the loop over them passes to
\* validate_eof1: each one up to the first that is in error.
EmbeddedReached(r, c, header) ==
    {SubView(c, container_begin(header, k), container_size(header, k)) :
        k \in {n \in 1 .. Len(header.container_sizes) :
                  \A j \in 1 .. n - 1 :
                      validate_eof1(r, SubView(c, container_begin(header, j),
                                               container_size(header, j))).err = "success"}}

RECURSIVE ValidatedViews(_, _)

\* the views validate_eof1 is called with behind the loop over the code sections
ViewsFromHeader(r, c, header) ==
    IF CodeSectionsError(r, c, header) # "success" THEN {}
    ELSE UNION {ValidatedViews(r, v) : v \in EmbeddedReached(r, c, header)}

ViewsFromTypes(r, c, section_headers, header_size, types_or_error) ==
    IF types_or_error.err # "success" THEN {}
    ELSE ViewsFromHeader(r, c, MakeHeader(section_headers, header_size,
                                          types_or_error.types))

ViewsFromHeaders(r, c, section_headers_or_error) ==
    IF section_headers_or_error.err # "success" THEN {}
    ELSE ViewsFromTypes(r, c, section_headers_or_error.headers,
                        eof_header_size(section_headers_or_error.headers),
                        validate_types(c, eof_header_size(section_headers_or_error.headers),
                                       section_headers_or_error.headers[TYPE_SECTION]))

\* The views validate_eof1 is called with when it is called with c: c itself
\* and, recursively, the embedded containers it reaches.
ValidatedViews(r, c) == {c} \cup ViewsFromHeaders(r, c, validate_eof_headers(c))

-----------------------------------------------------------------------------
(* is_eof_container, get_eof_version, validate_eof *)

\* is_eof_container that looks at the first byte only
IsEofContainerFirstByte(c) == c.len > 0 /\ At(c, 0) = MAGIC[1]

is_eof_container(c) == c.len > 1 /\ At(c, 0) = MAGIC[1] /\ At(c, 1) = MAGIC[2]

get_eof_version(c) ==
    IF c.len >= 3 /\ At(c, 0) = MAGIC[1] /\ At(c, 1) = MAGIC[2] THEN At(c, 2) ELSE 0

\* validate_eof without the check of the revision
ValidateEofAnyRevision(r, c) ==
    IF ~is_eof_container(c) THEN "invalid_prefix"
    ELSE IF get_eof_version(c) = 1 THEN validate_eof1(r, c).err
    ELSE "eof_version_unknown"

validate_eof(r, c) ==
    IF ~is_eof_container(c) THEN "invalid_prefix"
    ELSE IF get_eof_version(c) = 1
         THEN IF r < EVMC_CANCUN THEN "eof_version_unknown"
              ELSE validate_eof1(r, c).err
    ELSE "eof_version_unknown"

-----------------------------------------------------------------------------
(* read_valid_eof1_header *)

\* ReadValidSections that takes the low byte of a type or data size only
RECURSIVE ReadValidSectionsLowByte(_, _, _)
ReadValidSectionsLowByte(c, it, section_headers) ==
    IF At(c, it) = TERMINATOR THEN section_headers
    ELSE IF At(c, it) = CODE_SECTION \/ At(c, it) = CONTAINER_SECTION
    THEN ReadValidSectionsLowByte(c, it + 3 + 2 * U16(At(c, it + 1), At(c, it + 2)),
             [section_headers EXCEPT ![At(c, it)] =
                 @ \o [k \in 1 .. U16(At(c, it + 1), At(c, it + 2)) |->
                          U16(At(c, it + 3 + 2 * (k - 1)), At(c, it + 4 + 2 * (k - 1)))]])
    ELSE ReadValidSectionsLowByte(c, it + 3,
             [section_headers EXCEPT ![At(c, it)] = Append(@, At(c, it + 2))])

\* "while (*it != TERMINATOR)": the section headers read from it on
RECURSIVE ReadValidSections(_, _, _)
ReadValidSections(c, it, section_headers) ==
    IF At(c, it) = TERMINATOR THEN section_headers
    ELSE LET section_id == At(c, it)
         IN  IF section_id = CODE_SECTION \/ section_id = CONTAINER_SECTION
             THEN LET code_section_num == U16(At(c, it + 1), At(c, it + 2))
                      sizes == [k \in 1 .. code_section_num |->
                                   U16(At(c, it + 3 + 2 * (k - 1)), At(c, it + 4 + 2 * (k - 1)))]
                  IN  ReadValidSections(c, it + 3 + 2 * code_section_num,
                          [section_headers EXCEPT ![section_id] = @ \o sizes])
             ELSE ReadValidSections(c, it + 3,
                      [section_headers EXCEPT
                          ![section_id] = Append(@, U16(At(c, it + 1), At(c, it + 2)))])

\* ReadValidHeader that takes the type section for absent
ReadValidHeaderDefaultTypes(c, section_headers) ==
    MakeHeader(section_headers, eof_header_size(section_headers),
               <<[inputs_num |-> 0, outputs_num |-> 0, max_stack_height |-> 0]>>)

\* read_valid_eof1_header from the end of the loop on
ReadValidHeader(c, section_headers) ==
    MakeHeader(section_headers, eof_header_size(section_headers),
               IF section_headers[TYPE_SECTION] = <<>>
               THEN <<[inputs_num |-> 0, outputs_num |-> 0, max_stack_height |-> 0]>>
               ELSE ReadTypes(c, eof_header_size(section_headers),
                              section_headers[TYPE_SECTION][1]))

read_valid_eof1_header(c) ==
    ReadValidHeader(c, ReadValidSections(c, Len(MAGIC) + 1, EmptySectionHeaders))

-----------------------------------------------------------------------------
(* append_data_section: [ok |-> return value, container |-> the bytes after] *)

\* container.insert(insert_pos, aux_data)
Insert(bytes, insert_pos, aux) ==
    SubSeq(bytes, 1, insert_pos) \o aux \o SubSeq(bytes, insert_pos + 1, Len(bytes))

\* AppendWithHeader that inserts aux_data before it checks the new data size
AppendWithHeaderInsertFirst(bytes, aux, header) ==
    IF header.data_size + Len(aux) > UINT16_MAX
    THEN [ok |-> FALSE,
          container |-> Insert(bytes,
                               IF header.container_offsets = <<>> THEN Len(bytes)
                               ELSE container_begin(header, 1),
                               aux)]
    ELSE [ok |-> TRUE, container |-> bytes]

\* append_data_section from "const auto header = read_valid_eof1_header(container)" on
AppendWithHeader(bytes, aux, header) ==
    LET new_data_size == header.data_size + Len(aux)
        insert_pos == IF header.container_offsets = <<>> THEN Len(bytes)
                      ELSE container_begin(header, 1)
        num_code_sections == Len(header.code_sizes)
        data_size_pos == Len(MAGIC) + 1 + 3 + 3 + 2 * num_code_sections + 1
    IN  IF new_data_size > UINT16_MAX THEN [ok |-> FALSE, container |-> bytes]
        ELSE [ok |-> TRUE,
              container |-> [Insert(bytes, insert_pos, aux) EXCEPT
                                ![data_size_pos + 1] = (new_data_size \div 256) % 256,
                                ![data_size_pos + 2] = new_data_size % 256]]

append_data_section(bytes, aux) ==
    AppendWithHeader(bytes, aux, read_valid_eof1_header(View(bytes)))
-----------------------------------------------------------------------------
(* Inputs: containers assembled from their parts as the wire format lays    *)
(* them out (version 1: magic, version, section headers, terminator,        *)
(* bodies), and the bounded families the specifications draw from.          *)

MaxTokens == 3        \* instructions (tokens) per generated code section
MaxStack == 2         \* largest max_stack_height a generated type declares
MaxHeaders == 4       \* section headers per generated header stream
MaxSubs == 2          \* embedded containers per generated parent
MaxAux == 2           \* bytes of aux_data handed to append_data_section
MaxExtra == 1         \* code sections beyond / below CODE_SECTION_NUMBER_LIMIT

Be16(n) == <<(n \div 256) % 256, n % 256>>

\* the concatenation of seqs[lo] .. seqs[hi], by halving
RECURSIVE FlattenRange(_, _, _)
FlattenRange(seqs, lo, hi) ==
    IF lo > hi THEN <<>>
    ELSE IF lo = hi THEN seqs[lo]
    ELSE FlattenRange(seqs, lo, (lo + hi) \div 2)
         \o FlattenRange(seqs, (lo + hi) \div 2 + 1, hi)

Flatten(seqs) == FlattenRange(seqs, 1, Len(seqs))

Repeat(b, n) == [k \in 1 .. n |-> b]

SeqsUpTo(S, n) == UNION {[1 .. k -> S] : k \in 1 .. n}

TypeBytes(t) == <<t[1], t[2]>> \o Be16(t[3])

\* header entries
TypeHeader(size) == <<TYPE_SECTION>> \o Be16(size)
DataHeader(size) == <<DATA_SECTION>> \o Be16(size)
GroupHeader(kind, sizes) ==
    <<kind>> \o Be16(Len(sizes)) \o Flatten([k \in 1 .. Len(sizes) |-> Be16(sizes[k])])

Prefix == MAGIC \o <<1>>

\* A container in the order Type, Code, Data, [Container]: types are triples
\* <<inputs, outputs, max_stack>>, codes and subs are byte sequences.
Container(types, codes, data, subs) ==
    Prefix
    \o TypeHeader(4 * Len(types))
    \o GroupHeader(CODE_SECTION, [k \in 1 .. Len(codes) |-> Len(codes[k])])
    \o DataHeader(Len(data))
    \o (IF subs = <<>> THEN <<>>
        ELSE GroupHeader(CONTAINER_SECTION, [k \in 1 .. Len(subs) |-> Len(subs[k])]))
    \o <<TERMINATOR>>
    \o Flatten([k \in 1 .. Len(types) |-> TypeBytes(types[k])])
    \o Flatten(codes) \o data \o Flatten(subs)

\* The same with the Container header ahead of the Data header.
ContainerKD(types, codes, data, subs) ==
    Prefix
    \o TypeHeader(4 * Len(types))
    \o GroupHeader(CODE_SECTION, [k \in 1 .. Len(codes) |-> Len(codes[k])])
    \o GroupHeader(CONTAINER_SECTION, [k \in 1 .. Len(subs) |-> Len(subs[k])])
    \o DataHeader(Len(data))
    \o <<TERMINATOR>>
    \o Flatten([k \in 1 .. Len(types) |-> TypeBytes(types[k])])
    \o Flatten(codes) \o data \o Flatten(subs)

Minimal == Container(<<<<0, 0, 0>>>>, <<<<OP_INVALID>>>>, <<>>, <<>>)

(* Code family: one code section assembled from instruction tokens, the    *)
(* last of which may also be ill-formed or a RETF.                          *)
CodeTokens ==
    { <<OP_STOP>>, <<OP_ADDRESS>>, <<OP_POP>>, <<OP_JUMPDEST>>, <<OP_PUSH1, 0>>,
      <<OP_RJUMP, 0, 0>>, <<OP_RJUMP, 255, 252>>,
      <<OP_RJUMPI, 0, 0>>, <<OP_RJUMPI, 255, 252>>,
      <<OP_RJUMPV, 1, 0, 0>> }

LastTokens ==
    CodeTokens \cup {<<OP_RETF>>, <<OP_PUSH1>>, <<OP_RJUMP, 255, 253>>, <<12>>}

Codes ==
    {Flatten(ts) \o last :
        ts \in {<<>>} \cup SeqsUpTo(CodeTokens, MaxTokens - 1), last \in LastTokens}

CodeInputs ==
    {Container(<<<<0, 0, m>>>>, <<code>>, <<>>, <<>>) : m \in 0 .. MaxStack, code \in Codes}

(* Function family: a second code section with a typed signature. *)
FuncTokens ==
    { <<OP_ADDRESS>>, <<OP_POP>>, <<OP_RETF>>,
      <<OP_CALLF, 0, 0>>, <<OP_CALLF, 0, 1>>, <<OP_CALLF, 0, 2>> }

FuncCodes == {Flatten(ts) : ts \in SeqsUpTo(FuncTokens, MaxTokens)}

FuncInputs ==
    {Container(<<<<0, 0, 0>>, <<io[1], io[2], m>>>>, <<<<OP_STOP>>, code>>, <<>>, <<>>) :
        io \in {<<0, 0>>, <<0, 1>>, <<1, 1>>}, m \in 0 .. MaxStack, code \in FuncCodes}

(* Header family: a stream of section headers, with or without the        *)
(* terminator, over a body laid out in the order types, code, data,        *)
(* containers, unknown; the body is as declared, one byte short or one     *)
(* byte long; without the terminator the body is as declared.              *)
HeaderTokens ==
    { [hdr |-> TypeHeader(4), body |-> <<0, 0, 0, 0>>, rank |-> 1],
      [hdr |-> GroupHeader(CODE_SECTION, <<1>>), body |-> <<OP_INVALID>>, rank |-> 2],
      [hdr |-> GroupHeader(CODE_SECTION, <<1, 1>>), body |-> <<OP_INVALID, OP_INVALID>>,
       rank |-> 2],
      [hdr |-> DataHeader(0), body |-> <<>>, rank |-> 3],
      [hdr |-> GroupHeader(CONTAINER_SECTION, <<Len(Minimal)>>), body |-> Minimal, rank |-> 4],
      [hdr |-> <<5, 0, 1>>, body |-> <<0>>, rank |-> 5] }

HeaderStreams == {<<>>} \cup SeqsUpTo(HeaderTokens, MaxHeaders)

BodyOfRank(stream, rank) ==
    Flatten([k \in 1 .. Len(stream) |->
                IF stream[k].rank = rank THEN stream[k].body ELSE <<>>])

StreamBody(stream) == Flatten([rank \in 1 .. 5 |-> BodyOfRank(stream, rank)])

Adjust(body, delta) ==
    IF delta > 0 THEN body \o <<0>>
    ELSE IF delta < 0 /\ body # <<>> THEN SubSeq(body, 1, Len(body) - 1)
    ELSE body

HeaderContainer(stream, terminated, delta) ==
    Prefix \o Flatten([k \in 1 .. Len(stream) |-> stream[k].hdr])
    \o (IF terminated THEN <<TERMINATOR>> ELSE <<>>)
    \o Adjust(StreamBody(stream), delta)

HeaderInputs ==
    {HeaderContainer(stream, TRUE, delta) : stream \in HeaderStreams, delta \in {-1, 0, 1}}
    \cup {HeaderContainer(stream, FALSE, 0) : stream \in HeaderStreams}

(* Nesting family: a parent with embedded containers, the Container header *)
(* after or ahead of the Data header.                                      *)
WithPrefix(prefix, bytes) == prefix \o SubSeq(bytes, Len(prefix) + 1, Len(bytes))

SubInputs ==
    { Minimal,
      WithPrefix(<<170, 187, 204>>, Minimal),      \* no magic
      WithPrefix(<<239, 0, 2>>, Minimal),          \* version 2
      Container(<<<<0, 0, 0>>>>, <<<<12>>>>, <<>>, <<>>),     \* undefined instruction
      Container(<<<<0, 0, 0>>>>, <<<<OP_INVALID>>>>, <<>>, <<Minimal>>),
      Container(<<<<0, 0, 0>>>>, <<<<OP_INVALID>>>>, <<>>,
                <<WithPrefix(<<239, 1, 1>>, Minimal)>>),
      <<239, 0>> }                                 \* shorter than a prefix

NestInputs ==
    {Container(<<<<0, 0, 0>>>>, <<<<OP_INVALID>>>>, data, subs) :
        data \in {<<>>, <<218>>}, subs \in SeqsUpTo(SubInputs, MaxSubs)}
    \cup
    {ContainerKD(<<<<0, 0, 0>>>>, <<<<OP_INVALID>>>>, data, subs) :
        data \in {<<>>, <<218>>}, subs \in SeqsUpTo(SubInputs, MaxSubs)}

(* Big family: code sections around CODE_SECTION_NUMBER_LIMIT, each one     *)
(* INVALID of type (0, 0, 0), alone or followed by one embedded container.  *)
BigContainer(n) ==
    Container([k \in 1 .. n |-> <<0, 0, 0>>], [k \in 1 .. n |-> <<OP_INVALID>>],
              <<>>, <<>>)

BigInputs ==
    {BigContainer(n) :
        n \in CODE_SECTION_NUMBER_LIMIT - MaxExtra .. CODE_SECTION_NUMBER_LIMIT + MaxExtra}
    \cup
    {Container([k \in 1 .. n |-> <<0, 0, 0>>], [k \in 1 .. n |-> <<OP_INVALID>>],
               <<>>, <<Minimal>>) :
        n \in CODE_SECTION_NUMBER_LIMIT - MaxExtra .. CODE_SECTION_NUMBER_LIMIT}

(* Prefix family: short containers and containers whose first three bytes  *)
(* are not magic and version 1.                                             *)
PrefixInputs ==
    { <<>>, <<0>>, <<239>>, <<239, 0>>, <<239, 1>>, <<239, 0, 0>>, <<239, 0, 2>>,
      <<239, 1, 1>>, Prefix, Minimal }
    \cup {WithPrefix(p, Minimal) :
             p \in {<<170, 187, 204>>, <<239, 1, 1>>, <<0, 0, 1>>,
                    <<239, 0, 0>>, <<239, 0, 2>>, <<239, 0, 255>>}}

(* Type family: one or two INVALID code sections with types at and beyond  *)
(* the limits.                                                              *)
TypeValues ==
    {<<i, o, m>> :
        i \in {0, 1, OUTPUTS_INPUTS_NUMBER_LIMIT, OUTPUTS_INPUTS_NUMBER_LIMIT + 1},
        o \in {0, OUTPUTS_INPUTS_NUMBER_LIMIT, OUTPUTS_INPUTS_NUMBER_LIMIT + 1},
        m \in {0, OUTPUTS_INPUTS_NUMBER_LIMIT, MAX_STACK_HEIGHT, MAX_STACK_HEIGHT + 1}}

TypeInputs ==
    {Container(<<t>>, <<<<OP_INVALID>>>>, <<>>, <<>>) : t \in TypeValues}
    \cup {Container(<<t, u>>, <<<<OP_INVALID>>, <<OP_INVALID>>>>, <<>>, <<>>) :
             t \in TypeValues, u \in TypeValues}

(* Single instruction family: one code section of type (0, 0, 0) that      *)
(* holds one opcode with its immediate bytes, zero or a jump to itself.     *)
OneInstrCodes ==
    {<<op>> \o Repeat(0, immediate_size(op)) : op \in 0 .. 255}
    \cup {<<OP_RJUMP, 255, 253>>, <<OP_RJUMPI, 255, 253>>, <<OP_RJUMPV, 1, 255, 252>>,
          <<OP_RJUMPV, 1, 0, 0>>, <<OP_CALLF, 0, 1>>}

OneInstrInputs ==
    {Container(<<<<0, 0, 0>>>>, <<code>>, <<>>, <<>>) : code \in OneInstrCodes}

(* Cut family: a code section whose last instruction lacks immediate      *)
(* bytes, alone or after a STOP section.                                    *)
CutCodes ==
    {head \o cut :
        head \in {<<>>, <<OP_ADDRESS>>, <<OP_PUSH1, 0>>},
        cut \in {<<OP_PUSH1>>, <<OP_PUSH32, 0>>, <<OP_RJUMP>>, <<OP_RJUMP, 0>>,
                 <<OP_RJUMPI>>, <<OP_RJUMPI, 0>>, <<OP_RJUMPV>>, <<OP_RJUMPV, 1>>,
                 <<OP_RJUMPV, 1, 0>>, <<OP_CALLF>>, <<OP_CALLF, 0>>}}

CutInputs ==
    {Container(<<<<0, 0, 0>>>>, <<code>>, <<>>, <<>>) : code \in CutCodes}
    \cup {Container(<<<<0, 0, 0>>, <<0, 0, 0>>>>, <<<<OP_STOP>>, code>>, <<>>, <<>>) :
             code \in CutCodes}

(* Order family: two code sections, each valid or with an error of one    *)
(* stage, under a valid or an invalid type of section 0, followed by no,   *)
(* a valid or an invalid embedded container.                                *)
StageCodes ==
    {<<OP_STOP>>, <<12>>, <<OP_PUSH1>>, <<OP_RJUMP, 0, 0>>, <<OP_POP, OP_STOP>>,
     <<OP_ADDRESS, OP_STOP>>}

OrderInputs ==
    {Container(<<<<inputs, 0, 0>>, <<0, 0, 0>>>>, <<first, second>>, <<>>, subs) :
        inputs \in {0, 1}, first \in StageCodes, second \in StageCodes,
        subs \in {<<>>, <<Minimal>>,
                  <<Container(<<<<0, 0, 0>>>>, <<<<12>>>>, <<>>, <<>>)>>}}

(* Truncated family: the beginnings of a container with two code sections, *)
(* data and an embedded container, the Container header after or ahead of  *)
(* the Data header.                                                         *)
TruncBase ==
    {Container(<<<<0, 0, 0>>, <<0, 0, 0>>>>, <<<<OP_INVALID>>, <<OP_STOP>>>>, <<218>>,
               <<Minimal>>),
     ContainerKD(<<<<0, 0, 0>>, <<0, 0, 0>>>>, <<<<OP_INVALID>>, <<OP_STOP>>>>, <<218>>,
                 <<Minimal>>)}

TruncInputs == {SubSeq(b, 1, n) : b \in TruncBase, n \in 3 .. 52}

(* Scenario family: the typed functions of the test                        *)
(* minimal_valid_EOF1_multiple_code_sections, with max_stack_height 0 and   *)
(* with the heights the sections reach.                                     *)
TypedCodes == <<<<OP_INVALID>>, <<OP_POP, OP_STOP>>, <<OP_ADDRESS, OP_STOP>>, <<OP_DUP1, OP_STOP>>>>

TypedZero ==
    Container(<<<<0, 0, 0>>, <<1, 0, 0>>, <<0, 1, 0>>, <<2, 3, 0>>>>, TypedCodes, <<>>, <<>>)

TypedExact ==
    Container(<<<<0, 0, 0>>, <<1, 0, 1>>, <<0, 1, 1>>, <<2, 3, 3>>>>, TypedCodes, <<>>, <<>>)

ScenarioInputs == {TypedZero, TypedExact}

(* Backward jump family: the offset -4 container of the test               *)
(* EOF1_valid_rjump, and the same jump behind a JUMPDEST.                   *)
BackwardInputs ==
    {Container(<<<<0, 0, 0>>>>, <<<<OP_STOP, OP_RJUMP, 255, 252, OP_STOP>>>>, <<>>, <<>>),
     Container(<<<<0, 0, 0>>>>, <<<<OP_JUMPDEST, OP_RJUMP, 255, 252>>>>, <<>>, <<>>)}

(* Wide family: containers longer than UINT16_MAX bytes.  ImageCode holds  *)
(* the bytes of Minimal as the immediate of a PUSH32, at code offset 1.     *)
ImageCode == <<OP_PUSH32>> \o Minimal \o Repeat(0, 32 - Len(Minimal)) \o <<OP_POP, OP_STOP>>

WideInputs ==
    { Container(<<<<0, 0, 0>>>>, <<<<OP_INVALID>>>>, Repeat(218, UINT16_MAX), <<>>),
      Container(<<<<0, 0, 0>>>>, <<<<OP_INVALID>>>>, Repeat(218, UINT16_MAX), <<Minimal>>),
      \* the embedded container lies UINT16_MAX + 1 bytes after the image
      Container(<<<<0, 0, 1>>>>, <<ImageCode>>,
                Repeat(218, UINT16_MAX + 2 - Len(ImageCode)), <<Minimal>>) }


-----------------------------------------------------------------------------
(* The state machine: a container is validated; an accepted container may   *)
(* get aux data appended and is then validated again.                       *)

HeaderErrors ==
    { "incomplete_section_size", "incomplete_section_number", "code_section_missing",
      "type_section_missing", "data_section_missing", "multiple_data_sections",
      "unknown_section_id", "zero_section_size", "section_headers_not_terminated",
      "invalid_section_bodies_size", "code_section_before_type_section",
      "multiple_type_sections", "multiple_code_sections_headers", "too_many_code_sections",
      "data_section_before_code_section", "data_section_before_types_section",
      "invalid_type_section_size", "multiple_container_sections_headers",
      "container_section_before_type_section", "container_section_before_code_section" }

\* What validate_eof can return once it has read outside the buffer (undefined
\* behaviour): the header parser is then past container.end(), where the bytes
\* left are fewer than none, so it ends in some header error or does not return.
Outcomes(e) == IF e = "out_of_bounds_read" THEN HeaderErrors \cup {"crash"} ELSE {e}

TypeOK ==
    /\ pc \in {"input", "validated", "appended", "revalidated", "table", "looked_up"}
    /\ rev \in EVMC_FRONTIER .. EVMC_MAX_REVISION
    /\ table_op \in 0 .. 255
    /\ table_version \in {0, 1}
    /\ cost_defined \in {"none", "defined", "undefined"}

InitWith(inputs, revs) ==
    /\ container \in inputs
    /\ rev \in revs
    /\ pc = "input"
    /\ result = "none"
    /\ original = <<>>
    /\ aux_data = <<>>
    /\ appended = "none"
    /\ result2 = "none"
    /\ table_op = 0
    /\ table_version = 1
    /\ cost_defined = "none"

\* validate_eof(rev, container)
Validate ==
    /\ pc = "input"
    /\ result' \in Outcomes(validate_eof(rev, View(container)))
    /\ pc' = "validated"
    /\ UNCHANGED <<container, rev, original, aux_data, appended, result2>>
    /\ UNCHANGED <<table_op, table_version, cost_defined>>

\* the container is modified in place and the return value kept
Appended(r) ==
    /\ container' = r.container
    /\ appended' = r.ok

\* append_data_section(container, aux) on a container validate_eof accepted
AppendData(aux) ==
    /\ pc = "validated"
    /\ result = "success"
    /\ Appended(append_data_section(container, aux))
    /\ original' = container
    /\ aux_data' = aux
    /\ pc' = "appended"
    /\ UNCHANGED <<rev, result, result2, table_op, table_version, cost_defined>>

\* validate_eof(rev, container) on the container append_data_section left
Revalidate ==
    /\ pc = "appended"
    /\ result2' \in Outcomes(validate_eof(rev, View(container)))
    /\ pc' = "revalidated"
    /\ UNCHANGED <<container, rev, result, original, aux_data, appended>>
    /\ UNCHANGED <<table_op, table_version, cost_defined>>

AuxInputs == {Repeat(218, n) : n \in 0 .. MaxAux}

Next ==
    \/ Validate
    \/ \E aux \in AuxInputs : AppendData(aux)
    \/ Revalidate

\* containers with embedded containers, and prefixes, at two revisions
InitNested == InitWith(NestInputs \cup PrefixInputs, {EVMC_SHANGHAI, EVMC_CANCUN})

Init ==
    \/ InitWith(CodeInputs \cup FuncInputs \cup HeaderInputs \cup BigInputs
                \cup TypeInputs \cup OneInstrInputs \cup CutInputs \cup OrderInputs
                \cup TruncInputs \cup ScenarioInputs \cup BackwardInputs
                \cup WideInputs, {EVMC_CANCUN})
    \/ InitNested

Spec == Init /\ [][Next]_vars

\* The step in which a call of validate_eof gets from its entry to its end.
ValidateCalled == pc = "input" /\ pc' = "validated"

\* validate_eof is an ordinary call on one thread: once made it runs, so the
\* step that stands for it is taken.
FairSpec == InitNested /\ [][Next]_vars /\ WF_pc(ValidateCalled)

-----------------------------------------------------------------------------
(* The cost tables: an opcode is looked up in the table that                *)
(* get_baseline_cost_table returns for a revision and an eof_version.       *)

InitTable ==
    /\ container = <<>>
    /\ rev \in EVMC_FRONTIER .. EVMC_MAX_REVISION
    /\ pc = "table"
    /\ result = "none"
    /\ original = <<>>
    /\ aux_data = <<>>
    /\ appended = "none"
    /\ result2 = "none"
    /\ table_op \in 0 .. 255
    /\ table_version \in {0, 1}
    /\ cost_defined = "none"

\* get_baseline_cost_table(rev, table_version)[table_op] != instr::undefined
Lookup ==
    /\ pc = "table"
    /\ cost_defined' = IF cost_table_defined(rev, table_version, table_op)
                       THEN "defined" ELSE "undefined"
    /\ pc' = "looked_up"
    /\ UNCHANGED <<container, rev, result, original, aux_data, appended, result2,
                   table_op, table_version>>

NextTable == Lookup

SpecTable == InitTable /\ [][NextTable]_vars

-----------------------------------------------------------------------------
(* The container format read straight off the bytes, as the wire format     *)
(* lays it out.  The properties below are stated against this reading.      *)
(* Indices into bytes count from 1, offsets from 0.                         *)

\* what validate_eof returned for the container as it is now
Verdict ==
    IF pc = "validated" THEN result
    ELSE IF pc = "revalidated" THEN result2
    ELSE "none"

Validated == Verdict # "none"
Accepted == Verdict = "success"

RefBe16(bytes, pos) == bytes[pos] * 256 + bytes[pos + 1]

RECURSIVE RefSum(_, _, _)
RefSum(s, lo, hi) ==
    IF lo > hi THEN 0
    ELSE IF lo = hi THEN s[lo]
    ELSE RefSum(s, lo, (lo + hi) \div 2) + RefSum(s, (lo + hi) \div 2 + 1, hi)

\* closes the entries of a stream that is cut short or holds an unknown kind
RefBad == <<[kind |-> -1, sizes |-> <<>>]>>

\* the header entries [kind, sizes] from index pos up to the terminator
RECURSIVE RefEntries(_, _)
RefEntries(bytes, pos) ==
    IF pos > Len(bytes) THEN RefBad
    ELSE IF bytes[pos] = 0 THEN <<>>
    ELSE IF bytes[pos] \in {1, 3} THEN
        IF pos + 2 > Len(bytes) THEN RefBad
        ELSE <<[kind |-> bytes[pos], sizes |-> <<RefBe16(bytes, pos + 1)>>]>>
             \o RefEntries(bytes, pos + 3)
    ELSE IF bytes[pos] \in {2, 4} THEN
        IF pos + 2 > Len(bytes) THEN RefBad
        ELSE IF pos + 2 + 2 * RefBe16(bytes, pos + 1) > Len(bytes) THEN RefBad
        ELSE <<[kind |-> bytes[pos],
                sizes |-> [k \in 1 .. RefBe16(bytes, pos + 1) |->
                              RefBe16(bytes, pos + 1 + 2 * k)]]>>
             \o RefEntries(bytes, pos + 3 + 2 * RefBe16(bytes, pos + 1))
    ELSE RefBad

\* the header of a version-1 container: the entries that follow magic and version
RefHeader(bytes) == RefEntries(bytes, 4)

RefKindsOf(h) == [k \in 1 .. Len(h) |-> h[k].kind]

RefKinds(bytes) == RefKindsOf(RefHeader(bytes))

\* the header runs up to a terminator
RefTerminated(bytes) == \A k \in 1 .. Len(RefKinds(bytes)) : RefKinds(bytes)[k] # -1

\* the sizes the entries of one kind declare, in stream order
RefSizes(bytes, kind) ==
    LET h == RefHeader(bytes)
    IN  FlattenRange([k \in 1 .. Len(h) |-> IF h[k].kind = kind THEN h[k].sizes ELSE <<>>],
                     1, Len(h))

\* the number of header bytes, prefix and terminator included
RefHeaderSize(bytes) ==
    LET h == RefHeader(bytes)
    IN  3 + RefSum([k \in 1 .. Len(h) |->
                       IF h[k].kind \in {2, 4} THEN 3 + 2 * Len(h[k].sizes) ELSE 3],
                   1, Len(h)) + 1

RefSumAll(s) == RefSum(s, 1, Len(s))

RefTotal(bytes, kind) == RefSumAll(RefSizes(bytes, kind))

\* the bytes all the declared sections take
RefBodiesSize(bytes) ==
    RefTotal(bytes, 1) + RefTotal(bytes, 2) + RefTotal(bytes, 3) + RefTotal(bytes, 4)

\* the offset of the first body of a kind: bodies lie in the order 1, 2, 3, 4
RefBodyStart(bytes, kind) ==
    RefHeaderSize(bytes)
    + RefSum([j \in 1 .. 4 |-> IF j < kind THEN RefTotal(bytes, j) ELSE 0], 1, 4)

\* the bodies of the sections of a kind, one byte sequence per declared size
RECURSIVE RefCut(_, _, _, _, _)
RefCut(bytes, sizes, lo, hi, start) ==
    IF lo > hi THEN <<>>
    ELSE IF lo = hi THEN <<SubSeq(bytes, start + 1, start + sizes[lo])>>
    ELSE RefCut(bytes, sizes, lo, (lo + hi) \div 2, start)
         \o RefCut(bytes, sizes, (lo + hi) \div 2 + 1, hi,
                   start + RefSum(sizes, lo, (lo + hi) \div 2))

RefBodies(bytes, kind) ==
    RefCut(bytes, RefSizes(bytes, kind), 1, Len(RefSizes(bytes, kind)),
           RefBodyStart(bytes, kind))

RefDataSize(bytes) == RefTotal(bytes, 3)

\* the type section read as triples [inputs, outputs, max_stack]
RefTypes(bytes) ==
    LET body == RefBodies(bytes, 1)[1]
    IN  [f \in 1 .. Len(body) \div 4 |->
            [inputs |-> body[4 * f - 3], outputs |-> body[4 * f - 2],
             max_stack |-> RefBe16(body, 4 * f - 1)]]

\* the code sections
RefCodes(bytes) == RefBodies(bytes, 2)

\* the byte of a code section at an offset; 0 outside it
RefByte(code, o) == IF 0 <= o /\ o < Len(code) THEN code[o + 1] ELSE 0

\* the signed 16-bit big-endian value at offsets o, o + 1
RefRel(code, o) ==
    LET u == RefByte(code, o) * 256 + RefByte(code, o + 1)
    IN  IF u >= 32768 THEN u - 65536 ELSE u

\* the number of immediate bytes of the instruction at offset p
RefImmLen(code, p) ==
    IF RefByte(code, p) = OP_RJUMPV THEN 1 + 2 * RefByte(code, p + 1)
    ELSE immediate_size(RefByte(code, p))

\* the linear decoding: the offsets at which instructions start
RECURSIVE RefStartsFrom(_, _)
RefStartsFrom(code, p) ==
    IF p >= Len(code) THEN {}
    ELSE {p} \cup RefStartsFrom(code, p + 1 + RefImmLen(code, p))

RefStarts(code) == RefStartsFrom(code, 0)

\* the offset of the last instruction of the linear decoding
RefLastStart(code) == CHOOSE p \in RefStarts(code) : \A q \in RefStarts(code) : q <= p

\* every instruction's immediate bytes lie inside the section
RefImmediatesInside(code) ==
    \A p \in RefStarts(code) : p + RefImmLen(code, p) < Len(code)

\* the targets of the relative jump at offset p (none for other instructions)
RefJumpTargets(code, p) ==
    IF RefByte(code, p) \in {OP_RJUMP, OP_RJUMPI} THEN {p + 3 + RefRel(code, p + 1)}
    ELSE IF RefByte(code, p) = OP_RJUMPV
         THEN {p + 2 + 2 * RefByte(code, p + 1) + RefRel(code, p + 2 + 2 * k) :
                  k \in 0 .. RefByte(code, p + 1) - 1}
    ELSE {}

\* some relative jump of the section has a target that is no instruction start
RefHasBadJump(code) ==
    \E p \in RefStarts(code) : \E t \in RefJumpTargets(code, p) : t \notin RefStarts(code)

\* the offsets control can pass to from the instruction at offset p
RefSuccessors(code, p) ==
    IF is_terminating(RefByte(code, p)) THEN {}
    ELSE IF RefByte(code, p) = OP_RJUMP THEN RefJumpTargets(code, p)
    ELSE {p + 1 + RefImmLen(code, p)} \cup RefJumpTargets(code, p)

\* what the instruction at offset p adds to the stack height
RefChange(code, p, types) ==
    IF RefByte(code, p) = OP_CALLF
    THEN LET fid == RefByte(code, p + 1) * 256 + RefByte(code, p + 2)
         IN  IF fid < Len(types) THEN types[fid + 1].outputs - types[fid + 1].inputs ELSE 0
    ELSE stack_height_change(RefByte(code, p))

\* the pairs <<offset, entry height>> one more instruction leads to
RefStep(code, types, pairs) ==
    pairs \cup
    UNION {{<<s, pr[2] + RefChange(code, pr[1], types)>> :
               s \in {t \in RefSuccessors(code, pr[1]) : 0 <= t /\ t < Len(code)}} :
           pr \in pairs}

\* the pairs reached in at most fuel rounds, next being the pairs one
\* round leads to
RECURSIVE RefReachTo(_, _, _, _, _)
RefReachTo(code, types, pairs, next, fuel) ==
    IF fuel = 0 \/ next = pairs THEN pairs
    ELSE RefReachTo(code, types, next, RefStep(code, types, next), fuel - 1)

RefReach(code, types, pairs, fuel) ==
    RefReachTo(code, types, pairs, RefStep(code, types, pairs), fuel)

\* the entry heights of code section f, code being its bytes: every
\* <<offset, height>> an execution that enters the section with
\* types[f].inputs items can reach
RefEntryHeights(code, types, f) ==
    RefReach(code, types, {<<0, types[f].inputs>>}, Len(code))

\* the largest entry height of code section f
RefMaxHeight(code, types, f) ==
    LET hs == {pr[2] : pr \in RefEntryHeights(code, types, f)}
    IN  CHOOSE m \in hs : \A h \in hs : h <= m

\* magic, version 1 and a revision that knows it
RefPrefixOK(bytes, r) ==
    Len(bytes) >= 3 /\ SubSeq(bytes, 1, 3) = <<239, 0, 1>> /\ r >= EVMC_CANCUN

\* the number of entries of a kind in the header
RefCountIn(kinds, kind) == Cardinality({k \in 1 .. Len(kinds) : kinds[k] = kind})

RefCount(bytes, kind) == RefCountIn(RefKinds(bytes), kind)

\* no Type, Code or Container entry declares a size 0 or no sizes at all
RefSizesNonZero(bytes) ==
    LET h == RefHeader(bytes)
    IN  \A k \in 1 .. Len(h) :
            h[k].kind \in {1, 2, 4} =>
                h[k].sizes # <<>> /\ \A n \in 1 .. Len(h[k].sizes) : h[k].sizes[n] # 0

\* the header streams the header loop reads to the terminator without an error
RefLoopPasses(bytes) ==
    /\ RefKinds(bytes) \in {<<1, 2, 3>>, <<1, 2, 3, 4>>, <<1, 2, 4, 3>>}
    /\ RefSizesNonZero(bytes)
    /\ Len(RefSizes(bytes, 2)) <= CODE_SECTION_NUMBER_LIMIT
    /\ RefCount(bytes, 4) = 1 => Len(RefSizes(bytes, 2)) < CODE_SECTION_NUMBER_LIMIT

\* the containers validate_eof_headers passes: prefix, header loop, the size
\* of the bodies and the size of the type section
RefHeaderPasses(bytes, r) ==
    /\ RefPrefixOK(bytes, r)
    /\ RefLoopPasses(bytes)
    /\ RefBodiesSize(bytes) = Len(bytes) - RefHeaderSize(bytes)
    /\ RefTotal(bytes, 1) = 4 * Len(RefSizes(bytes, 2))

\* a type within the limits
RefTypeLimitsOK(t) ==
    /\ t.max_stack <= MAX_STACK_HEIGHT
    /\ t.inputs <= OUTPUTS_INPUTS_NUMBER_LIMIT
    /\ t.outputs <= OUTPUTS_INPUTS_NUMBER_LIMIT

\* the offsets of the bodies of a kind, one per declared size
RefOffsets(bytes, kind) ==
    [k \in 1 .. Len(RefSizes(bytes, kind)) |->
        RefBodyStart(bytes, kind) + RefSum(RefSizes(bytes, kind), 1, k - 1)]

\* the offsets of a header are those of the bodies and lie inside the bytes
RefOffsetsExact(header, bytes) ==
    /\ header.code_offsets = RefOffsets(bytes, 2)
    /\ header.container_offsets = RefOffsets(bytes, 4)
    /\ \A k \in 1 .. Len(header.code_offsets) :
           header.code_offsets[k] + header.code_sizes[k] <= Len(bytes)
    /\ \A k \in 1 .. Len(header.container_offsets) :
           header.container_offsets[k] + header.container_sizes[k] <= Len(bytes)
    /\ \A k \in 2 .. Len(header.container_offsets) :
           header.container_offsets[k - 1] < header.container_offsets[k]
    /\ (header.container_offsets # <<>>)
           => header.code_offsets[Len(header.code_offsets)] < header.container_offsets[1]

\* the types pass validate_types
RefTypesPassOn(types) ==
    /\ types[1].inputs = 0 /\ types[1].outputs = 0
    /\ \A f \in 1 .. Len(types) : RefTypeLimitsOK(types[f])

RefTypesPass(bytes) == RefTypesPassOn(RefTypes(bytes))

\* every opcode of the linear decoding is defined for EOF code at revision r
\* and no RJUMPV has a count of 0
RefCleanScan(code, r) ==
    \A p \in RefStarts(code) :
        /\ cost_table_defined(r, 1, RefByte(code, p))
        /\ (RefByte(code, p) = OP_RJUMPV /\ p + 1 < Len(code)) => RefByte(code, p + 1) >= 1

\* a code section a validator has nothing to object to: one STOP or INVALID
\* at height 0
RefPlain(code, t) ==
    code \in {<<OP_STOP>>, <<OP_INVALID>>} /\ t.inputs = 0 /\ t.max_stack = 0

\* the least element of a non-empty set of numbers
Least(S) == CHOOSE m \in S : \A n \in S : m <= n

\* the set that holds the first code section that is not plain, if any
RefNotPlain(codes, types) == {f \in 1 .. Len(codes) : ~RefPlain(codes[f], types[f])}

RefFirstNotPlain(codes, types) ==
    IF RefNotPlain(codes, types) = {} THEN {} ELSE {Least(RefNotPlain(codes, types))}

\* what the header parser is due to read where the bytes end, reading the
\* header entries from index pos: "id", "count" or "size", with the number
\* of bytes of it that are present and the kinds of the entries begun;
\* "none" after a terminator, "other" at an unknown kind or a zero count or size
RefDueIs(due, present, kinds) == [due |-> due, present |-> present, kinds |-> kinds]

RECURSIVE RefDue(_, _, _)
RefDue(bytes, pos, kinds) ==
    IF pos > Len(bytes) THEN RefDueIs("id", 0, kinds)
    ELSE IF bytes[pos] = 0 THEN RefDueIs("none", 0, kinds)
    ELSE IF bytes[pos] \in {1, 3} THEN
        IF pos + 2 > Len(bytes)
        THEN RefDueIs("size", Len(bytes) - pos, Append(kinds, bytes[pos]))
        ELSE IF bytes[pos] = 1 /\ RefBe16(bytes, pos + 1) = 0
        THEN RefDueIs("other", 0, kinds)
        ELSE RefDue(bytes, pos + 3, Append(kinds, bytes[pos]))
    ELSE IF bytes[pos] \in {2, 4} THEN
        IF pos + 2 > Len(bytes)
        THEN RefDueIs("count", Len(bytes) - pos, Append(kinds, bytes[pos]))
        ELSE IF RefBe16(bytes, pos + 1) = 0 THEN RefDueIs("other", 0, kinds)
        ELSE IF \E k \in 1 .. RefBe16(bytes, pos + 1) :
                    /\ pos + 2 + 2 * k <= Len(bytes)
                    /\ RefBe16(bytes, pos + 1 + 2 * k) = 0
        THEN RefDueIs("other", 0, kinds)
        ELSE IF pos + 2 + 2 * RefBe16(bytes, pos + 1) > Len(bytes)
        THEN RefDueIs("size", Len(bytes) - (pos + 2), Append(kinds, bytes[pos]))
        ELSE RefDue(bytes, pos + 3 + 2 * RefBe16(bytes, pos + 1), Append(kinds, bytes[pos]))
    ELSE RefDueIs("other", 0, kinds)

\* the kinds of the entries the header loop reads without an error
RefKindsInOrder ==
    {<<1>>, <<1, 2>>, <<1, 2, 3>>, <<1, 2, 4>>, <<1, 2, 3, 4>>, <<1, 2, 4, 3>>}

\* the function index of the CALLF at offset p
RefFid(code, p) == RefByte(code, p + 1) * 256 + RefByte(code, p + 2)

\* the stack items the instruction at offset p takes
RefRequired(code, p, types) ==
    IF RefByte(code, p) = OP_CALLF
    THEN (IF RefFid(code, p) < Len(types) THEN types[RefFid(code, p) + 1].inputs ELSE 0)
    ELSE stack_height_required(RefByte(code, p))

\* among the pairs <<offset, entry height>>: an offset reached at two
\* heights, a negative height, a height below what the instruction takes, or
\* a CALLF of a function that does not exist
RefHeightsViolated(pairs, code, types) ==
    \E pr \in pairs :
        \/ \E qr \in pairs : qr[1] = pr[1] /\ qr[2] # pr[2]
        \/ pr[2] < 0
        \/ pr[2] < RefRequired(code, pr[1], types)
        \/ RefByte(code, pr[1]) = OP_CALLF /\ RefFid(code, pr[1]) >= Len(types)

\* among the pairs: a RETF reached at a height other than outputs
RefRetfViolated(pairs, code, outputs) ==
    \E pr \in pairs : RefByte(code, pr[1]) = OP_RETF /\ pr[2] # outputs

\* the last instruction of the section lets no path run off its end
RefEndsClosed(code) ==
    \/ is_terminating(RefByte(code, RefLastStart(code)))
    \/ RefByte(code, RefLastStart(code)) = OP_RJUMP

\* the instruction offsets the pairs reach
RefReached(pairs) == {pr[1] : pr \in pairs}

\* every instruction of the section is among the offsets the pairs reach
RefAllReached(pairs, code) == RefStarts(code) \subseteq RefReached(pairs)
-----------------------------------------------------------------------------
(* Properties of validate_eof and append_data_section *)

\* C1: if validate_eof accepts a container, validate_eof (with the same
\* revision) accepts every embedded sub-container, taken as a container of
\* its own: magic, version and the whole pipeline.
C1_SubContainersValid ==
    Accepted =>
        \A k \in 1 .. Len(RefSizes(container, 4)) :
            validate_eof(rev, View(RefBodies(container, 4)[k])) = "success"

\* C2: if validate_eof accepts a container, its header stream holds the kinds
\* Type, Code, Data and then optionally Container, in this order.
C2_HeaderOrder ==
    Accepted => RefKinds(container) \in {<<1, 2, 3>>, <<1, 2, 3, 4>>}

\* C3: appending aux data of length L to an accepted container whose data
\* size plus L is at most 65535 returns true, the header read from the result
\* has the data size grown by L, and validate_eof accepts the result.
C3_AppendKeepsValid ==
    (/\ pc \in {"appended", "revalidated"}
     /\ RefDataSize(original) + Len(aux_data) <= UINT16_MAX)
    => /\ appended = TRUE
       /\ read_valid_eof1_header(View(container)).data_size
            = RefDataSize(original) + Len(aux_data)
       /\ (pc = "revalidated" => result2 = "success")

\* The same for containers of at most 65535 bytes whose header has the Data
\* header ahead of the Container header (not a claim: tells the causes of
\* C3's failures apart, the header order and the 16-bit offsets).
AppendKeepsValidInOrder ==
    (/\ pc \in {"appended", "revalidated"}
     /\ RefKinds(original) \in {<<1, 2, 3>>, <<1, 2, 3, 4>>}
     /\ Len(original) + Len(aux_data) <= UINT16_MAX
     /\ RefDataSize(original) + Len(aux_data) <= UINT16_MAX)
    => /\ appended = TRUE
       /\ read_valid_eof1_header(View(container)).data_size
            = RefDataSize(original) + Len(aux_data)
       /\ (pc = "revalidated" => result2 = "success")

\* the results validate_eof gives before it compares the stack heights of a
\* code section: prefix, version, header, type and instruction errors
BeforeCodeChecks ==
    HeaderErrors \cup
    { "invalid_prefix", "eof_version_unknown", "crash",
      "invalid_first_section_type", "max_stack_height_above_limit",
      "inputs_outputs_num_above_limit",
      "undefined_instruction", "truncated_instruction", "invalid_rjumpv_count" }

\* the results of the stack height analysis of a code section
DataflowErrors ==
    { "invalid_code_section_index", "stack_underflow", "no_terminating_instruction",
      "stack_height_mismatch", "non_empty_stack_on_terminating_instruction",
      "unreachable_instructions" }

\* every code section declares the largest entry stack height it reaches
DeclaredHeightsMatch(codes, types) ==
    \A f \in 1 .. Len(codes) : types[f].max_stack = RefMaxHeight(codes[f], types, f)

C5_RjumpDestinations ==
    LET codes == RefCodes(container)
    IN  /\ Accepted => \A f \in 1 .. Len(codes) : ~RefHasBadJump(codes[f])
        /\ (Validated /\ Verdict \notin BeforeCodeChecks /\ RefHasBadJump(codes[1]))
           => Verdict = "invalid_rjump_destination"

C5_Witness ==
    LET codes == RefCodes(container)
    IN  /\ Accepted
        /\ \E f \in 1 .. Len(codes) : \E p \in RefStarts(codes[f]) :
               /\ RefByte(codes[f], p) = OP_RJUMPV
               /\ RefJumpTargets(codes[f], p) \subseteq RefStarts(codes[f])

C9_BodiesSize ==
    (Validated /\ RefPrefixOK(container, rev) /\ RefLoopPasses(container))
    => LET remaining == Len(container) - RefHeaderSize(container)
           declared == RefBodiesSize(container)
           type_size_ok == RefTotal(container, 1) = 4 * Len(RefSizes(container, 2))
       IN  /\ declared # remaining => Verdict = "invalid_section_bodies_size"
           /\ (declared = remaining /\ ~type_size_ok)
                 => Verdict = "invalid_type_section_size"

C9_Witness ==
    /\ Validated
    /\ RefLoopPasses(container)
    /\ RefBodiesSize(container) < Len(container) - RefHeaderSize(container)
    /\ RefTotal(container, 1) # 4 * Len(RefSizes(container, 2))
    /\ Verdict = "invalid_section_bodies_size"

\* the valid container of CODE_SECTION_NUMBER_LIMIT code sections
FullContainer == BigContainer(CODE_SECTION_NUMBER_LIMIT)

C11_TypeLimits ==
    LET types == RefTypes(container)
        first_ok == types[1].inputs = 0 /\ types[1].outputs = 0
        Bad(f) == ~RefTypeLimitsOK(types[f])
    IN  /\ Accepted => first_ok /\ \A f \in 1 .. Len(types) : ~Bad(f)
        /\ (Validated /\ RefHeaderPasses(container, rev))
           => /\ ~first_ok => Verdict = "invalid_first_section_type"
              /\ first_ok =>
                    \A f \in 1 .. Len(types) :
                        (Bad(f) /\ \A g \in 1 .. f - 1 : ~Bad(g))
                        => Verdict = IF types[f].max_stack > MAX_STACK_HEIGHT
                                     THEN "max_stack_height_above_limit"
                                     ELSE "inputs_outputs_num_above_limit"

C11_Witness ==
    LET types == RefTypes(container)
    IN  /\ Validated
        /\ RefHeaderPasses(container, rev)
        /\ Len(types) = 2
        /\ types[1].inputs = 0 /\ types[1].outputs = 0
        /\ types[1].max_stack <= MAX_STACK_HEIGHT
        /\ types[2].inputs > OUTPUTS_INPUTS_NUMBER_LIMIT
        /\ types[2].max_stack <= MAX_STACK_HEIGHT
        /\ Verdict = "inputs_outputs_num_above_limit"

\* C12: in the header of every accepted container (the one validate_eof1
\* returns and the one read_valid_eof1_header reads) the code offsets and the
\* container offsets are the exact offsets of the bodies: header and type
\* section sizes, then the sizes of the sections ahead, the data ahead of the
\* embedded containers; they lie inside the container and increase, whatever
\* the length of the container.
C12_Offsets ==
    Accepted =>
        /\ RefOffsetsExact(validate_eof1(rev, View(container)).header, container)
        /\ RefOffsetsExact(read_valid_eof1_header(View(container)), container)

\* C13: validate_eof returns invalid_prefix for every container shorter than
\* 3 bytes and for every container whose first two bytes are not EF 00,
\* whatever the revision.
C13_InvalidPrefix ==
    (Validated /\ (Len(container) < 3 \/ SubSeq(container, 1, 2) # <<239, 0>>))
    => Verdict = "invalid_prefix"

\* C13 amended: validate_eof returns invalid_prefix for every container
\* shorter than 2 bytes and for every container whose first two bytes are not
\* EF 00, whatever the revision and the bytes that follow; the container of
\* the two bytes EF 00 is rejected with eof_version_unknown.
C13_NoMagic ==
    /\ (Validated /\ (Len(container) < 2 \/ SubSeq(container, 1, 2) # <<239, 0>>))
       => Verdict = "invalid_prefix"
    /\ (Validated /\ container = <<239, 0>>) => Verdict = "eof_version_unknown"

C13_Witness ==
    /\ Validated
    /\ rev = EVMC_SHANGHAI
    /\ Len(container) > 3
    /\ container[1] = 239 /\ container[2] # 0 /\ container[3] = 1
    /\ Verdict = "invalid_prefix"

C19_AppendTooLarge ==
    (/\ pc \in {"appended", "revalidated"}
     /\ RefDataSize(original) + Len(aux_data) > UINT16_MAX)
    => appended = FALSE /\ container = original

C19_Witness ==
    /\ pc = "appended"
    /\ RefDataSize(original) = UINT16_MAX
    /\ Len(aux_data) >= 1
    /\ appended = FALSE
    /\ container = original

\* the code sections in which the immediate bytes of the last instruction
\* are cut off by the end of the section, the container passing the header
\* and type checks, the sections ahead being plain and the section holding
\* no undefined opcode and no RJUMPV with count 0
CutSections ==
    LET codes == RefCodes(container)
        types == RefTypes(container)
    IN  IF Validated /\ RefHeaderPasses(container, rev) /\ RefTypesPass(container)
        THEN {f \in RefFirstNotPlain(codes, types) :
                 /\ RefCleanScan(codes[f], rev)
                 /\ ~RefImmediatesInside(codes[f])}
        ELSE {}

OneInstruction ==
    /\ Validated
    /\ RefHeaderPasses(container, rev)
    /\ Len(RefCodes(container)) = 1
    /\ RefSizes(container, 4) = <<>>
    /\ RefTypes(container)[1] = [inputs |-> 0, outputs |-> 0, max_stack |-> 0]
    /\ RefStarts(RefCodes(container)[1]) = {0}
    /\ RefImmediatesInside(RefCodes(container)[1])
    /\ cost_table_defined(rev, 1, RefCodes(container)[1][1])

\* the verdict on a section that holds the one instruction code
OneInstructionVerdict(code) ==
    IF code[1] = OP_RJUMPV /\ code[2] = 0 THEN "invalid_rjumpv_count"
    ELSE IF RefHasBadJump(code) THEN "invalid_rjump_destination"
    ELSE IF code[1] = OP_CALLF /\ RefByte(code, 1) * 256 + RefByte(code, 2) >= 1
         THEN "invalid_code_section_index"
    ELSE IF code[1] # OP_CALLF /\ stack_height_required(code[1]) > 0 THEN "stack_underflow"
    ELSE IF ~is_terminating(code[1]) /\ code[1] # OP_RJUMP THEN "no_terminating_instruction"
    ELSE "success"

StageVerdict(r, c, header, f, k) ==
    IF k = 1
    THEN validate_instructions(r, SubView(c, header.code_offsets[f], header.code_sizes[f]))
    ELSE IF k = 2
    THEN (IF validate_rjump_destinations(header, f, c) THEN "success"
          ELSE "invalid_rjump_destination")
    ELSE IF k = 3
    THEN validate_max_stack_height(
             SubView(c, header.code_offsets[f], header.code_sizes[f]), f, header.types).err
    ELSE IF validate_max_stack_height(
                SubView(c, header.code_offsets[f], header.code_sizes[f]), f,
                header.types).msh # header.types[f].max_stack_height
    THEN "invalid_max_stack_height"
    ELSE "success"

\* the first stage from k on that objects to code section f, 5 if none does
RECURSIVE FirstFailingStage(_, _, _, _, _)
FirstFailingStage(r, c, header, f, k) ==
    IF k > 4 THEN 5
    ELSE IF StageVerdict(r, c, header, f, k) # "success" THEN k
    ELSE FirstFailingStage(r, c, header, f, k + 1)

\* the verdict on embedded container k, validated as a container of its own
EmbeddedVerdict(r, c, header, k) ==
    validate_eof1(r, SubView(c, header.container_offsets[k], header.container_sizes[k])).err

\* the verdicts the pipeline order allows once the code sections failing
\* and the embedded containers failing are known
OrderedVerdicts(r, c, header, failing, failing_embedded) ==
    IF failing # {}
    THEN Outcomes(StageVerdict(r, c, header, Least(failing),
                               FirstFailingStage(r, c, header, Least(failing), 1)))
    ELSE IF failing_embedded # {}
    THEN Outcomes(EmbeddedVerdict(r, c, header, Least(failing_embedded)))
    ELSE {"success"}

PipelineSections(r, c, header) ==
    OrderedVerdicts(r, c, header,
        {f \in 1 .. Len(header.code_sizes) : FirstFailingStage(r, c, header, f, 1) <= 4},
        {k \in 1 .. Len(header.container_sizes) :
            EmbeddedVerdict(r, c, header, k) # "success"})

PipelineAfterTypes(r, c, headers, types_or_error) ==
    IF types_or_error.err # "success" THEN Outcomes(types_or_error.err)
    ELSE PipelineSections(r, c, MakeHeader(headers, eof_header_size(headers),
                                           types_or_error.types))

PipelineAfterHeaders(r, c, section_headers_or_error) ==
    IF section_headers_or_error.err # "success"
    THEN Outcomes(section_headers_or_error.err)
    ELSE PipelineAfterTypes(r, c, section_headers_or_error.headers,
             validate_types(c, eof_header_size(section_headers_or_error.headers),
                            section_headers_or_error.headers[TYPE_SECTION]))

PipelineVerdicts(r, bytes) ==
    IF ~RefPrefixOK(bytes, r) THEN {"invalid_prefix", "eof_version_unknown"}
    ELSE PipelineAfterHeaders(r, View(bytes), validate_eof_headers(View(bytes)))

\* C17: validate returns the first error in pipeline order: a header error,
\* else a type error, else the error of the first stage (instruction scan,
\* jump destinations, stack dataflow, max stack comparison) that objects to
\* the first code section some stage objects to, else the error of the first
\* embedded container that is rejected, returned unchanged.
C17_FirstErrorInOrder ==
    Validated => Verdict \in PipelineVerdicts(rev, container)

\* a stack error in section 0 ahead of an undefined instruction in section 1
\* and of an invalid embedded container
C17_Witness ==
    /\ Validated
    /\ RefHeaderPasses(container, rev) /\ RefTypesPass(container)
    /\ Len(RefCodes(container)) = 2
    /\ RefCodes(container)[1] = <<OP_POP, OP_STOP>>
    /\ RefCodes(container)[2] = <<12>>
    /\ RefSizes(container, 4) # <<>>
    /\ Verdict = "stack_underflow"

\* 4 x len(types) + sum(code_sizes) + data_size + sum(container_sizes)
SectionSizesSum(header) ==
    4 * Len(header.types)
    + RefSum(header.code_sizes, 1, Len(header.code_sizes))
    + header.data_size
    + RefSum(header.container_sizes, 1, Len(header.container_sizes))

\* C18: for an accepted container the header size plus the section sizes of
\* the header read_valid_eof1_header returns equal the container's length.
C18_SizesSumToLength ==
    Accepted
    => RefHeaderSize(container) + SectionSizesSum(read_valid_eof1_header(View(container)))
       = Len(container)

C18_Witness ==
    /\ Accepted
    /\ read_valid_eof1_header(View(container)).data_size > 0
    /\ read_valid_eof1_header(View(container)).container_sizes # <<>>
    /\ RefHeaderSize(container) + SectionSizesSum(read_valid_eof1_header(View(container)))
       = Len(container)

\* C20: the legacy table (eof_version 0) marks RJUMP and RJUMPI undefined at
\* every revision at which the EOF table defines them, and agrees with the
\* EOF table on every other opcode at every revision.
C20_LegacyTable ==
    (pc = "looked_up" /\ table_version = 0)
    => IF table_op \in {OP_RJUMP, OP_RJUMPI} /\ eof_cost_defined(rev, table_op)
       THEN cost_defined = "undefined"
       ELSE cost_defined = (IF eof_cost_defined(rev, table_op) THEN "defined"
                            ELSE "undefined")

\* the current container has magic and version, was validated at a revision
\* that knows EOF, and ends inside a header entry that follows entries the
\* header loop reads without an error
EndsInside(due) ==
    /\ Validated
    /\ RefPrefixOK(container, rev)
    /\ RefDue(container, 4, <<>>).due = due
    /\ RefDue(container, 4, <<>>).kinds \in RefKindsInOrder

\* C21: a container that ends where a 16-bit section size is due, before
\* both bytes of it, is rejected with incomplete_section_size; one that ends
\* inside the section count of a Code or Container header with
\* incomplete_section_number.
C21_IncompleteSize ==
    /\ EndsInside("size") => Verdict = "incomplete_section_size"
    /\ EndsInside("count") => Verdict = "incomplete_section_number"

\* C21 amended: a container that ends right where the size of a Type or Data
\* header, or the first size of a Code or Container header, is due, with no
\* byte of it, is rejected with section_headers_not_terminated; one that
\* ends after at least one byte of the sizes of the header with
\* incomplete_section_size; one that ends inside the section count with
\* incomplete_section_number.
C21_IncompleteOrNotTerminated ==
    /\ EndsInside("size")
       => Verdict = (IF RefDue(container, 4, <<>>).present = 0
                     THEN "section_headers_not_terminated"
                     ELSE "incomplete_section_size")
    /\ EndsInside("count") => Verdict = "incomplete_section_number"

\* the container ends after the count of the Container header
C21_Witness ==
    /\ EndsInside("size")
    /\ RefDue(container, 4, <<>>).present = 0
    /\ RefDue(container, 4, <<>>).kinds = <<1, 2, 3, 4>>
    /\ Verdict = "section_headers_not_terminated"

HeightsCoverInputs(types) ==
    \A f \in 1 .. Len(types) : types[f].max_stack >= types[f].inputs

SingleSection(code) ==
    /\ Validated
    /\ RefHeaderPasses(container, rev)
    /\ RefSizes(container, 4) = <<>>
    /\ RefTypes(container) = <<[inputs |-> 0, outputs |-> 0, max_stack |-> 0]>>
    /\ RefCodes(container) = <<code>>

C24_NeverImpossible ==
    result # "impossible" /\ result2 # "impossible"

\* the header loop has read a terminator with bytes left behind it
C24_Witness ==
    /\ Accepted
    /\ RefTerminated(container)
    /\ RefHeaderSize(container) < Len(container)
    /\ result # "impossible"

\* the section f violates the stack discipline and nothing else is wrong in
\* it: it passes the scan and the jump destination check, ends on a
\* terminating opcode or an RJUMP, and reaches RETF at the height of its
\* outputs only
OnlyHeightsViolated(pairs, code, types, f) ==
    /\ RefCleanScan(code, rev)
    /\ RefImmediatesInside(code)
    /\ ~RefHasBadJump(code)
    /\ RefEndsClosed(code)
    /\ ~RefRetfViolated(pairs, code, types[f].outputs)
    /\ RefHeightsViolated(pairs, code, types)

\* the first section that is not plain, when only its heights are violated
HeightViolationsIn(codes, types) ==
    {f \in RefFirstNotPlain(codes, types) :
        OnlyHeightsViolated(RefEntryHeights(codes[f], types, f), codes[f], types, f)}

HeightViolations ==
    IF Validated /\ RefHeaderPasses(container, rev) /\ RefTypesPass(container)
    THEN HeightViolationsIn(RefCodes(container), RefTypes(container))
    ELSE {}

\* every section keeps the stack discipline; plain sections hold one
\* instruction reached at the height of their inputs
DisciplineKept(codes, types) ==
    \A f \in 1 .. Len(codes) :
        \/ RefPlain(codes[f], types[f])
        \/ ~RefHeightsViolated(RefEntryHeights(codes[f], types, f), codes[f], types)

C25_Joined ==
    /\ Accepted
    /\ \E p \in RefStarts(RefCodes(container)[1]) :
           RefByte(RefCodes(container)[1], p) = OP_RJUMPI

\* the section f passes the scan, the jump destination check and the checks
\* made on each instruction the analysis visits
PerInstructionChecksPass(pairs, code, types, f) ==
    /\ RefCleanScan(code, rev)
    /\ RefImmediatesInside(code)
    /\ ~RefHasBadJump(code)
    /\ RefEndsClosed(code)
    /\ ~RefRetfViolated(pairs, code, types[f].outputs)
    /\ ~RefHeightsViolated(pairs, code, types)

\* the first section that is not plain, when it passes those checks and holds
\* an instruction no path from offset 0 reaches
UnreachedSection(pairs, code, types, f) ==
    PerInstructionChecksPass(pairs, code, types, f) /\ ~RefAllReached(pairs, code)

UnreachedIn(codes, types) ==
    {f \in RefFirstNotPlain(codes, types) :
        UnreachedSection(RefEntryHeights(codes[f], types, f), codes[f], types, f)}

\* the first section that is not plain, when every instruction of it is
\* reached and one of them has immediate bytes
ReachedWithImmediatesIn(codes, types) ==
    {f \in RefFirstNotPlain(codes, types) :
        /\ RefImmediatesInside(codes[f])
        /\ RefAllReached(RefEntryHeights(codes[f], types, f), codes[f])
        /\ \E p \in RefStarts(codes[f]) : RefImmLen(codes[f], p) > 0}

Unreached ==
    IF Validated /\ RefHeaderPasses(container, rev) /\ RefTypesPass(container)
    THEN UnreachedIn(RefCodes(container), RefTypes(container))
    ELSE {}

ReachedWithImmediates ==
    IF Validated /\ RefHeaderPasses(container, rev) /\ RefTypesPass(container)
    THEN ReachedWithImmediatesIn(RefCodes(container), RefTypes(container))
    ELSE {}

\* every instruction of every section is reached from offset 0
EverythingReached(codes, types) ==
    \A f \in 1 .. Len(codes) :
        \/ RefPlain(codes[f], types[f])
        \/ RefAllReached(RefEntryHeights(codes[f], types, f), codes[f])

\* for the section f, pairs being its entry heights: with an instruction left
\* unreached and the other checks passed the verdict is
\* unreachable_instructions; with every instruction reached, some with
\* immediate bytes, it is not
SectionReachDecides(pairs, code, types, f, verdict) ==
    /\ UnreachedSection(pairs, code, types, f) => verdict = "unreachable_instructions"
    /\ (/\ RefImmediatesInside(code)
        /\ RefAllReached(pairs, code)
        /\ \E p \in RefStarts(code) : RefImmLen(code, p) > 0)
       => verdict # "unreachable_instructions"

\* the same for the first section that is not plain
ReachDecides(codes, types, verdict) ==
    \A f \in RefFirstNotPlain(codes, types) :
        SectionReachDecides(RefEntryHeights(codes[f], types, f), codes[f], types, f,
                            verdict)

C26_ImmediatesSkipped ==
    /\ ReachedWithImmediates # {}
    /\ Accepted

\* the number of code sections the Code entries of the header declare
DeclaredCodeSections == Len(RefSizes(container, CODE_SECTION))

\* C27: too_many_code_sections is returned only when the Code header declares
\* more than 1024 code sections; 1024 code sections followed by a Container
\* header are not rejected with it, embedded containers not being counted.
C27_OnlyOverLimit ==
    Validated /\ Verdict = "too_many_code_sections"
        => DeclaredCodeSections > CODE_SECTION_NUMBER_LIMIT

\* what the size loop does: the error is returned when a size is read while
\* the limit is reached, the size of an embedded container included (an
\* embedded container shorter than its prefix is read past its end, and the
\* bytes found there decide)
C27_LimitOnEverySize ==
    Validated /\ Verdict = "too_many_code_sections"
        => \/ DeclaredCodeSections > CODE_SECTION_NUMBER_LIMIT
           \/ /\ DeclaredCodeSections = CODE_SECTION_NUMBER_LIMIT
              /\ RefSizes(container, CONTAINER_SECTION) # <<>>
           \/ \E k \in DOMAIN RefSizes(container, CONTAINER_SECTION) :
                  RefSizes(container, CONTAINER_SECTION)[k] < 3

\* a container of 1024 code sections and one embedded container, rejected
C27_Witness ==
    /\ Validated
    /\ DeclaredCodeSections = CODE_SECTION_NUMBER_LIMIT
    /\ RefSizes(container, CONTAINER_SECTION) # <<>>
    /\ Verdict = "too_many_code_sections"

\* one code section fewer, with the embedded container: accepted
C27_BelowLimitAccepted ==
    /\ Accepted
    /\ DeclaredCodeSections = CODE_SECTION_NUMBER_LIMIT - 1
    /\ RefSizes(container, CONTAINER_SECTION) # <<>>

\* validate_eof hands the container to validate_eof1
ReachesEof1 == Validated /\ RefPrefixOK(container, rev)

\* the views the validation of the container goes through
ViewsOfContainer == IF ReachesEof1 THEN ValidatedViews(rev, View(container)) ELSE {}

\* C28: during validate every byte read is inside the byte range being
\* validated, the container or the embedded container, embedded containers
\* declared with a size of 1 or 2 bytes included.
C28_ReadsInside ==
    \A v \in ViewsOfContainer : \A i \in HeaderFirstRead(v) : i < v.len

\* the reads are inside the views that hold magic and version at least
C28_ReadsInsideFromThree ==
    \A v \in ViewsOfContainer :
        v.len >= Len(MAGIC) + 1 => \A i \in HeaderFirstRead(v) : i < v.len

\* an embedded container shorter than magic and version, reached by the validation
C28_Witness ==
    \E v \in ViewsOfContainer :
        /\ v.base > 0
        /\ v.len < Len(MAGIC) + 1
        /\ HeaderFirstRead(v) # {}

\* the two headers are the same, field by field, and the lists of a header
\* that go together are of one length
SameHeader(read, computed) ==
    /\ read.code_sizes = computed.code_sizes
    /\ read.code_offsets = computed.code_offsets
    /\ read.data_size = computed.data_size
    /\ read.container_sizes = computed.container_sizes
    /\ read.container_offsets = computed.container_offsets
    /\ read.types = computed.types
    /\ Len(read.code_sizes) = Len(read.code_offsets)
    /\ Len(read.code_sizes) = Len(read.types)
    /\ Len(read.container_sizes) = Len(read.container_offsets)

\* C29: for every accepted container read_valid_eof1_header returns the
\* header the validation computed: the same code sizes and offsets, data
\* size, container sizes and offsets and types, the code lists and the types
\* of one length, the container lists of one length.
C29_ReadValidHeaderAgrees ==
    Accepted => SameHeader(read_valid_eof1_header(View(container)),
                           validate_eof1(rev, View(container)).header)

\* an accepted container with data and an embedded container
C29_Witness ==
    /\ Accepted
    /\ read_valid_eof1_header(View(container)).data_size > 0
    /\ read_valid_eof1_header(View(container)).container_sizes # <<>>
    /\ SameHeader(read_valid_eof1_header(View(container)),
                  validate_eof1(rev, View(container)).header)

\* an accepted container with several functions
C29_SeveralTypes ==
    /\ Accepted
    /\ Len(read_valid_eof1_header(View(container)).types) > 1

C30_ReturnsFromThree ==
    Validated /\ (\A v \in ViewsOfContainer : v.len >= Len(MAGIC) + 1)
        => /\ Verdict # "crash"
           /\ \A v \in ViewsOfContainer : v.base > 0 => v.len < Len(container)

\* a call that did not come back, made on a container with an embedded
\* container shorter than magic and version
C30_Witness ==
    /\ Verdict = "crash"
    /\ \E v \in ViewsOfContainer : v.base > 0 /\ v.len < Len(MAGIC) + 1

=============================================================================
